---- MODULE Spec2Model ----
(***************************************************************************)
(* Round/game reconciliation and enrichment pipeline of lcc_dbupdater.     *)
(*                                                                         *)
(* Two builds of the updater live in the repository and both are modelled: *)
(*   "current" : src/updateDatabase.js (updateGame always writes, with the *)
(*               checkmate short-circuit and the missing-data backfill)    *)
(*               with fetchCommentary/generateAndUploadImage of            *)
(*               src/services.js;                                          *)
(*   "cursor"  : src/unnamed/part_000 and part_002 (updateGame with the    *)
(*               shouldUpdate flag) with the services of                   *)
(*               src/unnamed/part_003.                                     *)
(* The variable build is fixed by Init and never changes.                  *)
(***************************************************************************)
EXTENDS Integers, Sequences, FiniteSets, TLC

VARIABLES
  build,      \* which build of the updater runs
  store,      \* the MongoDB collection: sequence of documents in insertion order
  prev,       \* the collection as it was when the current updater iteration began
  now,        \* logical clock behind new Date(): number of iterations started
  pc,         \* position of the updater iteration: "games" or "backfill"
  last,       \* what the last updateGame call did (requests, planned update, write)
  lastCheck,  \* what the last checkExistingEntries pass did
  repeated,   \* the last updateGame call was fed the GameState of the call before it,
              \* and the store did not fail that earlier call's write
  retryIn,    \* inputs of a stand-alone fetchCommentaryWithRetry run
  retryOut,   \* result of that run
  loop,       \* the driver (startDatabaseUpdater): its variant, its position in the
              \* round/game loops and what it did with the games of the current list
  feed,       \* what the feed returns to a stand-alone getGameState call
  fetch,      \* result of that call
  svc,        \* startServices: its position, the updater loops it launched and
              \* the snapshot of the feed they read
  probe,      \* a stand-alone call of one function of services: the function,
              \* what the feed gives it and what it returned
  conn,       \* the database module (client, db) and the calls of
              \* connectToDatabase/getDatabase in progress
  live        \* a getLiveGameUpdates poller: the feed it polls, its position and
              \* the events its callback received

vars == <<build, store, prev, now, pc, last, lastCheck, repeated, retryIn, retryOut, loop,
          feed, fetch, svc, probe, conn, live>>

----------------------------------------------------------------------------
(* Bounds of the model *)

\* number of updater iterations explored
MaxCycles == 3

\* number of calls of startDatabaseUpdater explored
MaxUpdaters == 2

----------------------------------------------------------------------------
(* Program constants and input universes *)

Builds == {"current", "cursor"}

TOURNAMENT_ID == "T1"

\* retries = 3 (default parameter of fetchCommentaryWithRetry)
Retries == 3

\* milliseconds of backoff per attempt made
DelayUnit == 5000

InitialFEN == "rnbqkbnr/pppppppp/8/8/8/8/PPPPPPPP/RNBQKBNR w KQkq - 0 1"
MidFEN     == "rnbqkbnr/pppppppp/8/8/4P3/8/PPPP1PPP/RNBQKBNR b KQkq - 0 1"
MateFEN    == "rnb1kbnr/pppp1ppp/8/4p3/6Pq/5P2/PPPPP2P/RNBQKBNR w KQkq - 1 3"

\* a move in coordinate notation is the sequence of its characters
MoveInitial == <<"i", "n", "i", "t", "i", "a", "l">>
MoveE2E4    == <<"e", "2", "e", "4">>
MoveD8H4    == <<"d", "8", "h", "4">>

\* positions the feed can report for the monitored game (latestFEN with the
\* lastMove getLastMoveFromPGN derives from the same move list)
Positions ==
  { [fen |-> InitialFEN, lastMove |-> MoveInitial],
    [fen |-> MidFEN,     lastMove |-> MoveE2E4],
    [fen |-> MateFEN,    lastMove |-> MoveD8H4] }

Results == {"1-0", "0-1", "1/2-1/2", "ongoing", "unknown"}

\* results drawn in the iteration specification
CycleResults == {"1-0", "0-1", "ongoing"}

Titles == {"", "GM"}

GameIds == {"T1-1-1-magnusca"}

\* what the commentary backend can do with one request:
\*   ok       200 with {commentary, stockfish_eval}
\*   error    200 with an error field
\*   missing  200 without commentary
\*   noEval   200 without a numeric stockfish_eval
\*   httpFail axios.post rejects (caught inside fetchCommentary)
\*   reject   the promise returned by fetchCommentary rejects (the case the
\*            catch block of fetchCommentaryWithRetry handles)
Backends == {"ok", "error", "missing", "noEval", "httpFail", "reject"}

\* backend behaviours drawn in the iteration specification
CycleBackends == {"ok", "error", "reject"}

\* absent value (null / undefined)
Null == [null |-> TRUE]

NoDoc == [absent |-> TRUE]

----------------------------------------------------------------------------
(* Documents and MongoDB operations *)

Has(d, k) == k \in DOMAIN d

\* $set: overwrite or add the keys of s
Merge(d, s) == [k \in DOMAIN d \cup DOMAIN s |-> IF k \in DOMAIN s THEN s[k] ELSE d[k]]

Commentaries(d) == IF Has(d, "commentaries") THEN d.commentaries ELSE <<>>

\* variant of ApplyUpdate in which $push replaces the stored array
ApplyUpdateReplacing(d, update) ==
  LET s == Merge(d, update.set)
  IN  IF update.push = Null THEN s
      ELSE Merge(s, [commentaries |-> <<update.push>>])

\* an update document {$set, $push: {commentaries}} applied to d
ApplyUpdate(d, update) ==
  LET s == Merge(d, update.set)
  IN  IF update.push = Null THEN s
      ELSE Merge(s, [commentaries |-> Append(Commentaries(s), update.push)])

Matches(d, filter) == \A k \in DOMAIN filter : Has(d, k) /\ d[k] = filter[k]

MatchingIndexes(coll, filter) == {i \in 1..Len(coll) : Matches(coll[i], filter)}

Min(S) == CHOOSE m \in S : \A n \in S : m <= n

\* collection.findOne(filter)
FindOne(coll, filter) ==
  IF MatchingIndexes(coll, filter) = {} THEN NoDoc
  ELSE coll[Min(MatchingIndexes(coll, filter))]

\* collection.updateOne(filter, update, {upsert}): the first matching document
\* is updated; with upsert and no match a document is inserted from the
\* filter's equality fields and the update
UpdateOne(coll, filter, update, upsert) ==
  IF MatchingIndexes(coll, filter) # {}
  THEN LET i == Min(MatchingIndexes(coll, filter))
       IN  [coll EXCEPT ![i] = ApplyUpdate(coll[i], update)]
  ELSE IF upsert
       THEN Append(coll, ApplyUpdate(Merge([_id |-> Len(coll) + 1], filter), update))
       ELSE coll

----------------------------------------------------------------------------
(* services: commentary, image, checkmate test *)

\* response.data of a valid answer of the commentary backend for a position
BackendResponse(fen) ==
  [commentary |-> IF fen = MidFEN THEN "White opens with the king's pawn."
                  ELSE IF fen = MateFEN THEN "Black delivers mate on h4."
                  ELSE "The game is about to start.",
   stockfish_eval |-> IF fen = MateFEN THEN 0 - 99 ELSE 35]

\* response.data of the commentary backend behaving as `backend`
ResponseData(fen, backend) ==
  IF backend = "ok" THEN BackendResponse(fen)
  ELSE IF backend = "error"
  THEN [error |-> "engine unavailable", commentary |-> "Analysis incomplete.",
        stockfish_eval |-> 0]
  ELSE IF backend = "missing" THEN [stockfish_eval |-> 35]
  ELSE [commentary |-> "White is slightly better."]

\* variant of ValidResponse that takes every response
AnyResponse(data) == TRUE

\* the two tests of fetchCommentary on response.data: no error field, a
\* commentary that is not empty and a stockfish_eval that is a number
ValidResponse(data) ==
  /\ ~Has(data, "error")
  /\ Has(data, "commentary") /\ data.commentary # ""
  /\ Has(data, "stockfish_eval")

\* { commentary: response.data.commentary, stockfishEval: response.data.stockfish_eval }
\* with the fields response.data has
EntryOf(data) ==
  [k \in {"commentary", "stockfishEval"} \cap
          ((IF Has(data, "commentary") THEN {"commentary"} ELSE {})
           \cup (IF Has(data, "stockfish_eval") THEN {"stockfishEval"} ELSE {})) |->
     IF k = "commentary" THEN data.commentary ELSE data.stockfish_eval]

\* the FEN for which fetchCommentary returns null without a request
SkipFEN(b) == IF b = "current" THEN InitialFEN ELSE "startpos"

\* fetchCommentary(latestFEN, lastMove, whiteName, blackName) against a backend
\* behaving as `backend`: kind is "valid" (an entry is returned), "null" or
\* "raise"; requested tells whether a request was posted
FetchCommentary(b, latestFEN, backend) ==
  IF latestFEN = SkipFEN(b)
  THEN [kind |-> "null", requested |-> FALSE, entry |-> Null]
  ELSE IF backend = "reject"
  THEN [kind |-> "raise", requested |-> TRUE, entry |-> Null]
  ELSE IF backend = "httpFail"
  THEN [kind |-> "null", requested |-> TRUE, entry |-> Null]
  ELSE IF ValidResponse(ResponseData(latestFEN, backend))
  THEN [kind |-> "valid", requested |-> TRUE,
        entry |-> EntryOf(ResponseData(latestFEN, backend))]
  ELSE [kind |-> "null", requested |-> TRUE, entry |-> Null]

\* the loop of fetchCommentaryWithRetry from iteration i on; outs[i + 1] is the
\* backend's behaviour at attempt i + 1; acc accumulates the attempts made, the
\* requests posted and the backoff waits
\* const delay = 5000 * (i + 1)
RetryDelay(i) == DelayUnit * (i + 1)

\* variant of IsLastAttempt that gives up on the first exception
IsLastAttemptFirst(i) == i = 0

\* if (i === retries - 1) throw error
IsLastAttempt(i) == i = Retries - 1

RECURSIVE RetryLoop(_, _, _, _, _)
RetryLoop(b, latestFEN, outs, i, acc) ==
  IF i >= Retries
  THEN [acc EXCEPT !.commentary = Null, !.raised = FALSE]
  ELSE LET r    == FetchCommentary(b, latestFEN, outs[i + 1])
           acc1 == [acc EXCEPT !.attempts = @ + 1,
                               !.requests = @ + (IF r.requested THEN 1 ELSE 0)]
       IN  IF r.kind = "raise"
           THEN IF IsLastAttempt(i)
                THEN [acc1 EXCEPT !.commentary = Null, !.raised = TRUE]
                ELSE RetryLoop(b, latestFEN, outs, i + 1,
                               [acc1 EXCEPT !.delays = Append(@, RetryDelay(i))])
           ELSE IF r.kind = "null"
           THEN RetryLoop(b, latestFEN, outs, i + 1, acc1)
           ELSE [acc1 EXCEPT !.commentary = r.entry, !.raised = FALSE]

NoRetry == [attempts |-> 0, requests |-> 0, delays |-> <<>>,
            commentary |-> Null, raised |-> FALSE]

\* variant of fetchCommentaryWithRetry that makes the last attempt only
FetchCommentaryLastAttempt(b, latestFEN, outs) ==
  RetryLoop(b, latestFEN, outs, Retries - 1, NoRetry)

FetchCommentaryWithRetry(b, latestFEN, outs) == RetryLoop(b, latestFEN, outs, 0, NoRetry)

\* generateAndUploadImage: the media id on success, null on any failure; the
\* cursor build's services return null always
GenerateAndUploadImage(b, image, id) ==
  IF b = "current" /\ image = "ok" THEN [mediaId |-> id] ELSE Null

\* isCheckmate(fen): true exactly for checkmate positions
IsCheckmate(fen) == fen = MateFEN

\* the commentary entry updateGame synthesizes for a checkmate position
CheckmateCommentary(result) ==
  [commentary   |-> IF result = "1-0"
                    THEN "The game has ended in checkmate. White wins."
                    ELSE "The game has ended in checkmate. Black wins.",
   stockfishEval |-> IF result = "1-0" THEN 100 ELSE 0 - 100]

\* lastMove.match(/.{1,2}/g): the move string cut into chunks of two characters
RECURSIVE Match2(_)
Match2(s) ==
  IF Len(s) = 0 THEN <<>>
  ELSE IF Len(s) = 1 THEN <<s>>
  ELSE <<SubSeq(s, 1, 2)>> \o Match2(SubSeq(s, 3, Len(s)))

----------------------------------------------------------------------------
(* updateGame *)

LookupFilter(gs) == [gameId |-> gs.gameId, tournamentId |-> TOURNAMENT_ID]

\* variant of UpdateFilter that selects by tournament alone
UpdateFilterByTournament(b, gs) == [tournamentId |-> TOURNAMENT_ID]

\* filter of the updateOne call
UpdateFilter(b, gs) ==
  IF b = "current" THEN [gameId |-> gs.gameId]
  ELSE [gameId |-> gs.gameId, tournamentId |-> TOURNAMENT_ID]

\* variant of ShouldGenerate that also fires on a changed result
ShouldGenerateOnResult(existing, gs) ==
  \/ existing = NoDoc \/ ~Has(existing, "latestFEN") \/ existing.latestFEN # gs.latestFEN
  \/ existing.result # gs.result

\* if (!existingGame || existingGame.latestFEN !== gameState.latestFEN)
ShouldGenerate(existing, gs) ==
  existing = NoDoc \/ ~Has(existing, "latestFEN") \/ existing.latestFEN # gs.latestFEN

\* existingGame && (result differs || isLive differs)
MetadataChanged(existing, gs) ==
  /\ existing # NoDoc
  /\ \/ ~Has(existing, "result") \/ existing.result # gs.result
     \/ ~Has(existing, "isLive") \/ existing.isLive # gs.isLive

\* whether updateGame reaches its updateOne call when nothing raises
ShouldUpdate(b, existing, gs) ==
  IF b = "current" THEN TRUE
  ELSE ShouldGenerate(existing, gs) \/ MetadataChanged(existing, gs)

Stamp(t) == [lastUpdated |-> t, tournamentId |-> TOURNAMENT_ID]

\* update.$set as built before enrichment
PlannedSet(b, existing, gs, t) ==
  IF b = "current" THEN Merge(Stamp(t), gs)
  ELSE LET s1 == IF ShouldGenerate(existing, gs) THEN Merge(Stamp(t), gs) ELSE Stamp(t)
       IN  IF MetadataChanged(existing, gs)
           THEN Merge(s1, [result |-> gs.result, isLive |-> gs.isLive])
           ELSE s1

NoEnrichment ==
  [attempts |-> 0, requests |-> 0, delays |-> <<>>, commentary |-> Null,
   raised |-> FALSE, imageCalls |-> 0, highlight |-> <<>>, imageMediaId |-> Null]

\* variant of ObtainCommentary without the checkmate short-circuit
ObtainCommentaryAlwaysFetch(b, gs, outs) == FetchCommentaryWithRetry(b, gs.latestFEN, outs)

\* the commentary of the enrichment block: synthesized for a checkmate position
\* in the current build, requested with retries otherwise
ObtainCommentary(b, gs, outs) ==
  IF b = "current" /\ IsCheckmate(gs.latestFEN)
  THEN [NoRetry EXCEPT !.commentary = CheckmateCommentary(gs.result)]
  ELSE FetchCommentaryWithRetry(b, gs.latestFEN, outs)

\* variant of Enrich in which a failed image drops the commentary as well
EnrichAllOrNothing(b, gs, env, id) ==
  LET c == ObtainCommentary(b, gs, env.outs)
      m == GenerateAndUploadImage(b, env.image, id)
  IN  IF c.raised \/ c.commentary = Null \/ m = Null
      THEN [NoEnrichment EXCEPT !.attempts = c.attempts, !.requests = c.requests,
                                !.delays = c.delays, !.raised = c.raised,
                                !.imageCalls = IF c.raised \/ c.commentary = Null THEN 0 ELSE 1]
      ELSE [attempts |-> c.attempts, requests |-> c.requests, delays |-> c.delays,
            commentary |-> c.commentary, raised |-> FALSE,
            imageCalls |-> 1, highlight |-> Match2(gs.lastMove),
            imageMediaId |-> m]

\* the block under if (shouldGenerateCommentaryAndImage)
Enrich(b, gs, env, id) ==
  LET c == ObtainCommentary(b, gs, env.outs)
  IN  IF c.raised \/ c.commentary = Null
      THEN [NoEnrichment EXCEPT !.attempts = c.attempts, !.requests = c.requests,
                                !.delays = c.delays, !.raised = c.raised]
      ELSE [attempts |-> c.attempts, requests |-> c.requests, delays |-> c.delays,
            commentary |-> c.commentary, raised |-> FALSE,
            imageCalls |-> 1, highlight |-> Match2(gs.lastMove),
            imageMediaId |-> GenerateAndUploadImage(b, env.image, id)]

\* variant of BuildUpdate that sets imageMediaId to whatever the image step
\* gave, null included
BuildUpdateAlwaysImage(b, existing, gs, e, t) ==
  [set  |-> Merge(PlannedSet(b, existing, gs, t), [imageMediaId |-> e.imageMediaId]),
   push |-> e.commentary]

\* the update document handed to updateOne
BuildUpdate(b, existing, gs, e, t) ==
  [set  |-> IF e.imageMediaId # Null
            THEN Merge(PlannedSet(b, existing, gs, t), [imageMediaId |-> e.imageMediaId])
            ELSE PlannedSet(b, existing, gs, t),
   push |-> e.commentary]

\* updateGame(collection, gameState) at time t in environment env:
\* the collection afterwards and the record of what the call did
UpdateGame(b, coll, gs, env, t) ==
  LET existing == FindOne(coll, LookupFilter(gs))
      generate == ShouldGenerate(existing, gs)
      e        == IF generate THEN Enrich(b, gs, env, t) ELSE NoEnrichment
      obtained == IF generate THEN ObtainCommentary(b, gs, env.outs).commentary ELSE Null
      update   == BuildUpdate(b, existing, gs, e, t)
      issue    == ~e.raised /\ ShouldUpdate(b, existing, gs)
      wrote    == issue /\ env.write = "ok"
  IN  [store |-> IF wrote THEN UpdateOne(coll, UpdateFilter(b, gs), update, TRUE) ELSE coll,
       log   |-> [called |-> TRUE, gs |-> gs, existing |-> existing,
                  obtained |-> obtained,
                  imageFailed |-> obtained # Null
                                   /\ GenerateAndUploadImage(b, env.image, t) = Null,
                  shouldGenerate |-> generate,
                  shouldUpdate |-> ShouldUpdate(b, existing, gs),
                  update |-> update,
                  attempts |-> e.attempts, requests |-> e.requests,
                  raised |-> e.raised,
                  imageCalls |-> e.imageCalls, highlight |-> e.highlight,
                  writes |-> IF issue THEN 1 ELSE 0, wrote |-> wrote]]

----------------------------------------------------------------------------
(* checkExistingEntries: the missing-data backfill of the current build *)

\* entry.white.name / entry.black.name evaluate only on a document that has
\* the sub-documents white and black; on any other document the property
\* access raises a TypeError
HasPlayerNames(entry) == Has(entry, "white") /\ Has(entry, "black")

\* if (!entry.commentaries || entry.commentaries.length === 0)
NeedsCommentary(entry) == Commentaries(entry) = <<>>

\* if (!entry.imageMediaId && entry.lastMove && entry.lastMove !== 'initial')
NeedsImage(entry) ==
  /\ ~Has(entry, "imageMediaId")
  /\ Has(entry, "lastMove") /\ entry.lastMove # <<>>
  /\ entry.lastMove # MoveInitial

NoCheck == [attempts |-> 0, requests |-> 0, imageCalls |-> 0, writes |-> 0,
            appended |-> 0, raised |-> FALSE]

\* the body of the for loop for one entry: the update it builds and what it
\* requested; raised when the iteration throws
CheckEntry(b, entry, env, id) ==
  LET c == IF NeedsCommentary(entry) /\ HasPlayerNames(entry)
           THEN FetchCommentaryWithRetry(b, entry.latestFEN, env.outs)
           ELSE NoRetry
      commentaryRaised == NeedsCommentary(entry) /\ (~HasPlayerNames(entry) \/ c.raised)
      squares == IF NeedsImage(entry) THEN Match2(entry.lastMove) ELSE <<>>
      imageWanted == NeedsImage(entry) /\ Len(squares) >= 2
      imageRaised == imageWanted /\ ~HasPlayerNames(entry)
      media == IF imageWanted /\ ~imageRaised
               THEN GenerateAndUploadImage(b, env.image, id) ELSE Null
  IN  IF commentaryRaised
      THEN [raised |-> TRUE, attempts |-> c.attempts, requests |-> c.requests,
            imageCalls |-> 0, shouldUpdate |-> FALSE,
            update |-> [set |-> <<>>, push |-> Null]]
      ELSE [raised |-> imageRaised, attempts |-> c.attempts, requests |-> c.requests,
            imageCalls |-> IF imageWanted /\ ~imageRaised THEN 1 ELSE 0,
            shouldUpdate |-> ~imageRaised /\ (c.commentary # Null \/ media # Null),
            update |-> [set  |-> IF media # Null THEN [imageMediaId |-> media] ELSE <<>>,
                        push |-> c.commentary]]

\* the for loop over allEntries from index i on; an exception ends the pass
RECURSIVE CheckLoop(_, _, _, _, _, _, _)
CheckLoop(b, allEntries, coll, env, id, i, acc) ==
  IF i > Len(allEntries) THEN [store |-> coll, log |-> acc]
  ELSE LET r    == CheckEntry(b, allEntries[i], env, id)
           acc1 == [acc EXCEPT !.attempts = @ + r.attempts,
                               !.requests = @ + r.requests,
                               !.imageCalls = @ + r.imageCalls]
       IN  IF r.raised
           THEN [store |-> coll, log |-> [acc1 EXCEPT !.raised = TRUE]]
           ELSE IF ~r.shouldUpdate
           THEN CheckLoop(b, allEntries, coll, env, id, i + 1, acc1)
           ELSE IF env.write # "ok"
           THEN [store |-> coll,
                 log |-> [acc1 EXCEPT !.writes = @ + 1, !.raised = TRUE]]
           ELSE CheckLoop(b, allEntries,
                          UpdateOne(coll, [_id |-> allEntries[i]._id], r.update, FALSE),
                          env, id, i + 1,
                          [acc1 EXCEPT !.writes = @ + 1,
                                       !.appended = @ + (IF r.update.push # Null THEN 1 ELSE 0)])

\* checkExistingEntries(collection)
CheckExistingEntries(b, coll, env, id) ==
  CheckLoop(b, coll, coll, env, id, 1, NoCheck)

----------------------------------------------------------------------------
(* The updater iteration: updateGame for the monitored game, then (current  *)
(* build) the backfill pass                                                 *)

\* the GameState getGameState builds from a feed snapshot
GameState(g, p, ti, r, l) ==
  [gameId |-> g, latestFEN |-> p.fen, lastMove |-> p.lastMove,
   whiteName |-> "Magnus Carlsen", blackName |-> "Hikaru Nakamura",
   whiteTitle |-> ti, result |-> r, isLive |-> l]

PositionOf(fen) == CHOOSE p \in Positions : p.fen = fen

\* the feed snapshots an iteration can fetch: the game before its first move;
\* the game after 1.e4 with every combination of result and live flag, and
\* with a corrected title; the mated position with each result
GameStates ==
  { GameState(g, PositionOf(InitialFEN), "", "ongoing", TRUE) : g \in GameIds }
  \cup { GameState(g, PositionOf(MidFEN), "", r, l) :
         g \in GameIds, r \in {"ongoing", "1-0"}, l \in BOOLEAN }
  \cup { GameState(g, PositionOf(MidFEN), "GM", "ongoing", TRUE) : g \in GameIds }
  \cup { GameState(g, PositionOf(MateFEN), "", r, FALSE) : g \in GameIds, r \in CycleResults }

\* what the collaborators do during one call: the commentary backend at each
\* of the attempts, the image service, the store's updateOne
Envs == [outs : [1..Retries -> CycleBackends], image : {"ok", "fail"}, write : {"ok", "fail"}]

NoCall ==
  [called |-> FALSE, gs |-> Null, existing |-> NoDoc, obtained |-> Null,
   imageFailed |-> FALSE, shouldGenerate |-> FALSE,
   shouldUpdate |-> FALSE, update |-> [set |-> <<>>, push |-> Null],
   attempts |-> 0, requests |-> 0, raised |-> FALSE, imageCalls |-> 0,
   highlight |-> <<>>, writes |-> 0, wrote |-> FALSE]

RetryIdleIn == [fen |-> "", outs |-> <<>>]

RetryIdleOut == [done |-> FALSE, run |-> NoRetry]

FeedIdle == [game |-> Null, index |-> Null, round |-> 0, number |-> 0]

FetchIdle == [done |-> FALSE, out |-> Null]

\* the database module as loaded: let client = null, let db = null (0 is
\* null), no client created, no call made
ConnIdle == [client |-> 0, db |-> 0, created |-> 0, connected |-> {}, calls |-> <<>>]

\* no poller under study
LiveIdle ==
  [pc |-> "idle", played |-> 0, isLive |-> FALSE, lastMoveCount |-> 0, events |-> <<>>,
   polls |-> 0, answer |-> "none", stopCalled |-> FALSE]

\* no stand-alone call of a function of services
ProbeIdle == [fn |-> "none", input |-> Null, done |-> FALSE, out |-> Null]

\* index.js before startServices is called
ServicesIdle == [phase |-> "idle", port |-> "valid", updaters |-> <<>>, feed |-> 0]

\* the driver before startDatabaseUpdater is called
LoopIdle ==
  [driver |-> "none", pc |-> "idle", round |-> 0, latest |-> 0, mode |-> "none",
   games |-> <<>>, idx |-> 0, trail |-> <<>>, error |-> "none", feed |-> 0,
   checked |-> [over |-> FALSE, live |-> FALSE], arg |-> Null, asked |-> <<>>]

Init ==
  /\ build \in Builds
  /\ store = <<>>
  /\ prev = <<>>
  /\ now = 0
  /\ pc = "games"
  /\ last = NoCall
  /\ lastCheck = NoCheck
  /\ repeated = FALSE
  /\ retryIn = RetryIdleIn
  /\ retryOut = RetryIdleOut
  /\ loop = LoopIdle
  /\ feed = FeedIdle
  /\ fetch = FetchIdle
  /\ conn = ConnIdle
  /\ live = LiveIdle
  /\ svc = ServicesIdle
  /\ probe = ProbeIdle

AllOk == [i \in 1..Retries |-> "ok"]

\* the environments of Envs that differ in something an updateGame call for gs
\* consults: the backend's behaviour at the attempts made, the image service
\* when it is called, updateOne when it is reached
EnvsForUpdate(b, coll, gs) ==
  LET existing == FindOne(coll, LookupFilter(gs))
      generate == ShouldGenerate(existing, gs)
      outsSet  == IF generate
                  THEN {o \in [1..Retries -> CycleBackends] :
                          \A i \in 1..Retries :
                            i > ObtainCommentary(b, gs, o).attempts => o[i] = "ok"}
                  ELSE {AllOk}
  IN  UNION { LET c == IF generate THEN ObtainCommentary(b, gs, o) ELSE NoRetry
              IN  [outs  : {o},
                   image : IF c.commentary # Null THEN {"ok", "fail"} ELSE {"ok"},
                   write : IF ~c.raised /\ ShouldUpdate(b, existing, gs)
                           THEN {"ok", "fail"} ELSE {"ok"}] :
              o \in outsSet }

\* the same for a checkExistingEntries pass
EnvsForCheck(b, coll, id) ==
  {env \in Envs :
     LET r == CheckExistingEntries(b, coll, env, id).log
     IN  /\ r.attempts = 0 => env.outs = AllOk
         /\ r.imageCalls = 0 => env.image = "ok"
         /\ r.writes = 0 => env.write = "ok"}

\* one getGameState + updateGame of the monitored game
UpdateGameStep ==
  /\ pc = "games"
  /\ now < MaxCycles
  /\ \E gs \in GameStates :
       \E env \in EnvsForUpdate(build, store, gs) :
         LET r == UpdateGame(build, store, gs, env, now + 1)
         IN  /\ store' = r.store
             /\ last' = r.log
             /\ repeated' = (last.called /\ last.gs = gs /\ (last.writes = 1 => last.wrote))
  /\ prev' = store
  /\ now' = now + 1
  /\ pc' = IF build = "current" THEN "backfill" ELSE "games"
  /\ lastCheck' = NoCheck
  /\ UNCHANGED <<build, retryIn, retryOut, loop, feed, fetch, svc, probe, conn, live>>

\* the checkExistingEntries pass that ends an iteration of the current build
CheckExistingEntriesStep ==
  /\ pc = "backfill"
  /\ \E env \in EnvsForCheck(build, store, now) :
       LET r == CheckExistingEntries(build, store, env, now)
       IN  /\ store' = r.store
           /\ lastCheck' = r.log
  /\ pc' = "games"
  /\ UNCHANGED <<build, prev, now, last, repeated, retryIn, retryOut, loop, feed, fetch, svc, probe,
                 conn, live>>

Next == UpdateGameStep \/ CheckExistingEntriesStep

Spec == Init /\ [][Next]_vars

----------------------------------------------------------------------------
(* fetchCommentaryWithRetry on its own: every position and every behaviour  *)
(* of the backend over the three attempts                                    *)

RetryInit ==
  /\ build \in Builds
  /\ store = <<>>
  /\ prev = <<>>
  /\ now = 0
  /\ pc = "retry"
  /\ last = NoCall
  /\ lastCheck = NoCheck
  /\ repeated = FALSE
  /\ retryIn \in [fen : {p.fen : p \in Positions}, outs : [1..Retries -> Backends]]
  /\ retryOut = RetryIdleOut
  /\ loop = LoopIdle
  /\ feed = FeedIdle
  /\ fetch = FetchIdle
  /\ conn = ConnIdle
  /\ live = LiveIdle
  /\ svc = ServicesIdle
  /\ probe = ProbeIdle

RunRetry ==
  /\ pc = "retry"
  /\ ~retryOut.done
  /\ retryOut' = [done |-> TRUE,
                  run |-> FetchCommentaryWithRetry(build, retryIn.fen, retryIn.outs)]
  /\ UNCHANGED <<build, store, prev, now, pc, last, lastCheck, repeated, retryIn, loop, feed, fetch, svc, probe,
                 conn, live>>

RetryNext == RunRetry

RetrySpec == RetryInit /\ [][RetryNext]_vars

----------------------------------------------------------------------------
(* The drivers: startDatabaseUpdater and the loops under it.                *)
(*   "rounds" : src/updateDatabase.js, every round scanned in every cycle   *)
(*   "poll"   : src/unnamed/part_001:349-515, finished rounds at boot, then *)
(*              the live round polled                                       *)
(*   "fixed"  : src/unnamed/part_000:154-168, the monitored games of the    *)
(*              round that was the latest at start                          *)
(*   "cursor" : src/unnamed/part_002:147-183, the monitored games of        *)
(*              currentRound, which moves on when its round is over and the *)
(*              next one is live                                            *)
(* loop.feed = 0: the feed, the database and the backends answer or fail    *)
(* freely at every request. loop.feed = 1, 2: they answer every request,    *)
(* the feed with the tournament at its stage 1 (round 1 being played, round *)
(* 2 not paired) or 2 (round 1 over, round 2 being played).                 *)
(* The clock read by updateGame takes its values in LoopInstants and never  *)
(* goes back.                                                               *)

Drivers == {"rounds", "poll", "fixed"}

\* values of new Date() in updateGame
LoopInstants == {0, 1}

\* the updateGame and services each driver is built with
BuildOf(d) == IF d \in {"fixed", "cursor"} THEN "cursor" ELSE "current"

\* const MAX_ROUNDS = 35, scaled to the two rounds the feed model has
MAX_ROUNDS == 2

TOP_BOARDS == 6

\* const GAMES_TO_MONITOR = [1, 2, 3, 4, 5, 6], scaled to two boards
GAMES_TO_MONITOR == <<1, 2>>

\* a string value of the feed
Str(s) == [str |-> s]

\* String.prototype.toUpperCase on the strings of the model
ToUpperCase(s) ==
  IF s = "whitewin" THEN "WHITEWIN"
  ELSE IF s = "BlackWin" THEN "BLACKWIN"
  ELSE IF s = "draw" THEN "DRAW"
  ELSE IF s = "resigned" THEN "RESIGNED"
  ELSE s

\* variant of ToUpperCase that leaves the letters as they are
KeepCase(s) == s

\* the switch of standardizeResult on the upper-cased value; a case that
\* returns the argument returns it as it came
ResultSwitch(b, raw) ==
  LET upper == ToUpperCase(raw)
  IN  IF upper = "WHITEWIN" THEN "1-0"
      ELSE IF upper = "BLACKWIN" THEN "0-1"
      ELSE IF upper = "DRAW" THEN "1/2-1/2"
      ELSE IF upper \in {"1-0", "0-1", "1/2-1/2"} THEN (IF b = "current" THEN upper ELSE raw)
      ELSE "unknown"

\* standardizeResult(result): result is Null (null, undefined) or a string of
\* the feed. services.js tests result === null || result === undefined,
\* part_003 tests !result, which the empty string satisfies too
StandardizeResult(b, result) ==
  IF result = Null THEN "ongoing"
  ELSE IF b = "cursor" /\ result.str = "" THEN "ongoing"
  ELSE ResultSwitch(b, result.str)

\* a rejected promise
Raise == [raise |-> TRUE]

\* the request for a round's index.json failed
IndexDown == [down |-> TRUE]

\* the request for a feed document failed
Down == [down |-> TRUE]

\* rounds.reduce((latest, round, index) => round.count > 0 ? index + 1 : latest, 0)
RECURSIVE ReduceLatest(_, _, _)
ReduceLatest(rounds, index, latest) ==
  IF index >= Len(rounds) THEN latest
  ELSE ReduceLatest(rounds, index + 1,
                    IF rounds[index + 1].count > 0 THEN index + 1 ELSE latest)

\* getLatestRoundNumber(), given what the tournament request returned: the
\* round number, or the error it throws from its catch
GetLatestRoundNumber(tourney) ==
  IF tourney = Down THEN Raise ELSE [round |-> ReduceLatest(tourney.rounds, 0, 0)]

\* what a request for a round's index.json can return
RoundIndexes ==
  { IndexDown,
    [pairings |-> <<>>],
    [pairings |-> <<[result |-> Null, live |-> TRUE]>>],
    [pairings |-> <<[result |-> Str("WHITEWIN"), live |-> FALSE]>>] }

\* variant of IsRoundLive whose catch answers true
IsRoundLiveUnlessDown(index) ==
  IF index = IndexDown THEN TRUE ELSE Len(index.pairings) > 0

\* isRoundLive(round), given what the index request returned
IsRoundLive(index) ==
  IF index = IndexDown THEN FALSE ELSE Len(index.pairings) > 0

\* variant of AreAllGamesOver that asks for one finished game
AreSomeGamesOver(index) ==
  IF index = IndexDown THEN FALSE
  ELSE \E i \in 1..Len(index.pairings) :
         /\ index.pairings[i].result # Null
         /\ index.pairings[i].result.str # ""
         /\ StandardizeResult("cursor", index.pairings[i].result) # "ongoing"

\* areAllGamesOver(round), given what the index request returned
AreAllGamesOver(index) ==
  IF index = IndexDown THEN FALSE
  ELSE \A i \in 1..Len(index.pairings) :
         /\ index.pairings[i].result # Null
         /\ index.pairings[i].result.str # ""
         /\ StandardizeResult("cursor", index.pairings[i].result) # "ongoing"

\* getRoundGames(round): the game numbers of the round, or a feed error
RoundGamesOutcomes == {Raise} \cup {[games |-> g] : g \in {<<>>, <<1, 2>>}}

\* getLatestRoundNumber(): a round number, 0 when no round has games, or
\* Error('Failed to fetch latest round number')
LatestRoundOutcomes == {Raise} \cup {[round |-> n] : n \in 0..MAX_ROUNDS}

\* the index.json of a round at a stage of the tournament
StageIndex(stage, round) ==
  IF round = 1
  THEN IF stage = 1
       THEN [pairings |-> <<[result |-> Null, live |-> TRUE], [result |-> Null, live |-> TRUE]>>]
       ELSE [pairings |-> <<[result |-> Str("WHITEWIN"), live |-> FALSE],
                            [result |-> Str("DRAW"), live |-> FALSE]>>]
  ELSE IF stage = 1
       THEN [pairings |-> <<>>]
       ELSE [pairings |-> <<[result |-> Null, live |-> TRUE], [result |-> Null, live |-> TRUE]>>]

\* the tournament.json of a stage: the games of each round and how many of
\* them are live
StageTourney(stage) ==
  [rounds |-> [r \in 1..MAX_ROUNDS |->
                 LET pairings == StageIndex(stage, r).pairings
                 IN  [count |-> Len(pairings),
                      live |-> Len(SelectSeq(pairings, LAMBDA p : p.live))]]]

\* what the request for the index.json of a round returns to the driver; the
\* feed has no round after MAX_ROUNDS
IndexResponses(l, round) ==
  IF round < 1 \/ round > MAX_ROUNDS THEN {IndexDown}
  ELSE IF l.feed = 0 THEN RoundIndexes
  ELSE {StageIndex(l.feed, round)}

\* what getLatestRoundNumber returns to the driver
LatestResponses(l) ==
  IF l.feed = 0 THEN LatestRoundOutcomes ELSE {GetLatestRoundNumber(StageTourney(l.feed))}

\* what getRoundGames returns to the driver
ListingResponses(l, round) ==
  IF l.feed = 0 THEN RoundGamesOutcomes
  ELSE {[games |-> [i \in 1..Len(StageIndex(l.feed, round).pairings) |-> i]]}

\* what connectToDatabase does
ConnectResponses(l) == IF l.feed = 0 THEN {"ok", "fail"} ELSE {"ok"}

\* the gameId of the monitored games: `${tournamentId}-${round}-${game}-${playerToken}`
GameId(round, game) ==
  <<TOURNAMENT_ID, round, game, <<"m", "a", "g", "n", "u", "s", "c", "a">> >>

\* what getGameState(round, game) can return when it does not raise
LoopGameStates(round, game) ==
  { GameState(GameId(round, game), PositionOf(MidFEN), "", "ongoing", TRUE) }

\* collaborators of an updateGame call in the driver specification: the
\* commentary backend answers or rejects throughout, the store accepts the
\* write or fails it
LoopEnvs ==
  { [outs |-> o, image |-> "ok", write |-> w] :
      o \in {AllOk, [i \in 1..Retries |-> "reject"]}, w \in {"ok", "fail"} }

\* the collaborators as the driver meets them
EnvResponses(l) ==
  IF l.feed = 0 THEN LoopEnvs ELSE {[outs |-> AllOk, image |-> "ok", write |-> "ok"]}

\* the for loop over the rounds moves on: to the next round, or to the
\* backfill after the last one
NextRound(l) ==
  IF l.round < MAX_ROUNDS THEN [l EXCEPT !.pc = "round", !.round = @ + 1]
  ELSE [l EXCEPT !.pc = "backfill"]

\* updateFinishedRounds moves on: to the next round, or into the main loop of
\* updateDatabase after round latestRound
BootNext(l) ==
  IF l.round < l.latest THEN [l EXCEPT !.pc = "bootRound", !.round = @ + 1]
  ELSE [l EXCEPT !.pc = "lookup"]

\* a loop over a list of games begins
StartList(l, mode, games) ==
  [l EXCEPT !.pc = "games", !.mode = mode, !.games = games, !.idx = 1, !.trail = <<>>]

\* the statement after the loop over the games
AfterList(l) ==
  IF l.driver = "rounds" THEN NextRound(l)
  ELSE IF l.driver \in {"fixed", "cursor"} THEN [l EXCEPT !.pc = "sleep"]
  ELSE IF l.mode = "finished" THEN BootNext(l)
  ELSE [l EXCEPT !.pc = "pollRound"]

\* the loop over the games moves to the next game, or ends
AfterGame(l) ==
  IF l.idx >= Len(l.games) THEN AfterList([l EXCEPT !.idx = @ + 1])
  ELSE [l EXCEPT !.idx = @ + 1]

Visited(l, game, outcome) ==
  [l EXCEPT !.trail = Append(@, [game |-> game, outcome |-> outcome])]

\* variant of AfterFetchError without the try/catch around one game: the
\* error ends the loop over the games
AfterFetchErrorEndsList(l, game) ==
  AfterList(Visited(l, game, "fetchFailed"))

\* catch (error) { logger.error(...) } inside the loop over the games
AfterFetchError(l, game) ==
  AfterGame(Visited(l, game, "fetchFailed"))

\* updateLiveGames takes the first min(topN, length) games
TopGames(games) ==
  SubSeq(games, 1, IF Len(games) < TOP_BOARDS THEN Len(games) ELSE TOP_BOARDS)

LoopInit ==
  /\ \E d \in Drivers :
       /\ build = BuildOf(d)
       /\ loop = [LoopIdle EXCEPT !.driver = d, !.pc = "start"]
  /\ store = <<>>
  /\ prev = <<>>
  /\ now = 0
  /\ pc = "loop"
  /\ last = NoCall
  /\ lastCheck = NoCheck
  /\ repeated = FALSE
  /\ retryIn = RetryIdleIn
  /\ retryOut = RetryIdleOut
  /\ feed = FeedIdle
  /\ fetch = FetchIdle
  /\ conn = ConnIdle
  /\ live = LiveIdle
  /\ svc = ServicesIdle
  /\ probe = ProbeIdle

\* startDatabaseUpdater up to its loop
StartUpdater ==
  /\ pc = "loop" /\ loop.pc = "start"
  /\ \E connect \in ConnectResponses(loop), latest \in LatestResponses(loop) :
       loop' =
         IF loop.driver = "rounds" THEN [loop EXCEPT !.pc = "cycle"]
         ELSE IF connect = "fail" THEN [loop EXCEPT !.pc = "stopped", !.error = "startConnect"]
         ELSE IF latest = Raise THEN [loop EXCEPT !.pc = "stopped", !.error = "startLatest"]
         ELSE IF loop.driver = "fixed"
         THEN StartList([loop EXCEPT !.round = latest.round, !.latest = latest.round],
                        "fixed", GAMES_TO_MONITOR)
         ELSE IF loop.driver = "cursor"
         THEN [loop EXCEPT !.pc = "advance", !.round = latest.round, !.latest = latest.round]
         ELSE IF latest.round = 0 THEN [loop EXCEPT !.pc = "lookup"]
         ELSE [loop EXCEPT !.pc = "bootRound", !.round = 1, !.latest = latest.round]
  /\ UNCHANGED <<build, store, prev, now, pc, last, lastCheck, repeated, retryIn, retryOut, feed, fetch, svc, probe,
                 conn, live>>

\* rounds driver: an iteration of while (true) begins; updateDatabase connects
BeginCycle ==
  /\ pc = "loop" /\ loop.pc = "cycle"
  /\ \E connect \in ConnectResponses(loop) :
       loop' = IF connect = "ok"
               THEN [loop EXCEPT !.pc = "round", !.round = 1]
               ELSE loop
  /\ UNCHANGED <<build, store, prev, now, pc, last, lastCheck, repeated, retryIn, retryOut, feed, fetch, svc, probe,
                 conn, live>>

\* rounds driver: the body of the for loop over the rounds, up to the first
\* game of the round
RoundStep ==
  /\ pc = "loop" /\ loop.pc = "round"
  /\ \E liveIndex \in IndexResponses(loop, loop.round),
        overIndex \in IndexResponses(loop, loop.round),
        listing \in ListingResponses(loop, loop.round) :
       loop' =
         IF IsRoundLive(liveIndex)
         THEN IF listing = Raise THEN [loop EXCEPT !.pc = "cycle"]
              ELSE IF Len(listing.games) > 0
              THEN StartList(loop, "live", TopGames(listing.games))
              ELSE NextRound(loop)
         ELSE IF AreAllGamesOver(overIndex)
         THEN IF listing = Raise THEN NextRound(loop)
              ELSE IF Len(listing.games) > 0 THEN StartList(loop, "finished", listing.games)
              ELSE NextRound(loop)
         ELSE NextRound(loop)
  /\ UNCHANGED <<build, store, prev, now, pc, last, lastCheck, repeated, retryIn, retryOut, feed, fetch, svc, probe,
                 conn, live>>

\* one iteration of a loop over games: getGameState, then updateGame
GameStep ==
  /\ pc = "loop" /\ loop.pc = "games"
  /\ LET game == loop.games[loop.idx]
     IN  \/ /\ loop.feed = 0
            /\ loop' = AfterFetchError(loop, game)
            /\ last' = NoCall
            /\ store' = store
            /\ now' = now
         \/ \E gs \in LoopGameStates(loop.round, game), env \in EnvResponses(loop),
                t \in {i \in LoopInstants : i >= now} :
              LET r == UpdateGame(build, store, gs, env, t)
              IN  /\ store' = r.store
                  /\ last' = r.log
                  /\ now' = t
                  /\ loop' = AfterGame(Visited(loop, game, "reconciled"))
  /\ prev' = store
  /\ UNCHANGED <<build, pc, lastCheck, repeated, retryIn, retryOut, feed, fetch, svc, probe,
                 conn, live>>

\* rounds driver: checkExistingEntries, whose exception the catch of
\* updateDatabase logs; then the wait of startDatabaseUpdater
BackfillStep ==
  /\ pc = "loop" /\ loop.pc = "backfill"
  /\ \E env \in EnvResponses(loop) :
       LET r == CheckExistingEntries(build, store, env, now)
       IN  /\ store' = r.store
           /\ lastCheck' = r.log
           /\ loop' = [loop EXCEPT !.pc = "cycle"]
  /\ UNCHANGED <<build, prev, now, pc, last, repeated, retryIn, retryOut, feed, fetch, svc, probe,
                 conn, live>>

\* fixed and cursor drivers: the wait between two passes over
\* GAMES_TO_MONITOR
SleepStep ==
  /\ pc = "loop" /\ loop.pc = "sleep"
  /\ loop' = IF loop.driver = "fixed" THEN StartList(loop, "fixed", GAMES_TO_MONITOR)
             ELSE [loop EXCEPT !.pc = "advance"]
  /\ UNCHANGED <<build, store, prev, now, pc, last, lastCheck, repeated, retryIn, retryOut, feed, fetch, svc, probe,
                 conn, live>>

\* poll driver: the body of the for loop of updateFinishedRounds
BootRoundStep ==
  /\ pc = "loop" /\ loop.pc = "bootRound"
  /\ \E liveIndex \in IndexResponses(loop, loop.round),
        overIndex \in IndexResponses(loop, loop.round),
        listing \in ListingResponses(loop, loop.round) :
       loop' =
         IF IsRoundLive(liveIndex) THEN [loop EXCEPT !.pc = "lookup"]
         ELSE IF AreAllGamesOver(overIndex)
         THEN IF listing = Raise THEN BootNext(loop)
              ELSE IF Len(listing.games) > 0 THEN StartList(loop, "finished", listing.games)
              ELSE BootNext(loop)
         ELSE [loop EXCEPT !.pc = "lookup"]
  /\ UNCHANGED <<build, store, prev, now, pc, last, lastCheck, repeated, retryIn, retryOut, feed, fetch, svc, probe,
                 conn, live>>

\* poll driver: the head of while (true) in updateDatabase
LookupStep ==
  /\ pc = "loop" /\ loop.pc = "lookup"
  /\ \E latest \in LatestResponses(loop) :
       loop' = IF latest = Raise THEN [loop EXCEPT !.pc = "stopped", !.error = "latest"]
               ELSE IF latest.round = 0 THEN [loop EXCEPT !.latest = 0]
               ELSE [loop EXCEPT !.pc = "scan", !.round = 1, !.latest = latest.round]
  /\ UNCHANGED <<build, store, prev, now, pc, last, lastCheck, repeated, retryIn, retryOut, feed, fetch, svc, probe,
                 conn, live>>

\* poll driver: the body of the for loop that looks for a live round
ScanStep ==
  /\ pc = "loop" /\ loop.pc = "scan"
  /\ \E liveIndex \in IndexResponses(loop, loop.round) :
       loop' = IF IsRoundLive(liveIndex) THEN [loop EXCEPT !.pc = "pollRound"]
               ELSE IF loop.round < loop.latest THEN [loop EXCEPT !.round = @ + 1]
               ELSE [loop EXCEPT !.pc = "lookup"]
  /\ UNCHANGED <<build, store, prev, now, pc, last, lastCheck, repeated, retryIn, retryOut, feed, fetch, svc, probe,
                 conn, live>>

\* poll driver: the head of while (await isRoundLive(roundNumber)) in
\* pollLiveRound and the listing of the round's games
PollRoundStep ==
  /\ pc = "loop" /\ loop.pc = "pollRound"
  /\ \E liveIndex \in IndexResponses(loop, loop.round),
        listing \in ListingResponses(loop, loop.round) :
       loop' =
         IF ~IsRoundLive(liveIndex) THEN [loop EXCEPT !.pc = "lookup"]
         ELSE IF listing = Raise THEN [loop EXCEPT !.pc = "stopped", !.error = "listing"]
         ELSE IF Len(listing.games) > 0 THEN StartList(loop, "live", listing.games)
         ELSE loop
  /\ UNCHANGED <<build, store, prev, now, pc, last, lastCheck, repeated, retryIn, retryOut, feed, fetch, svc, probe,
                 conn, live>>

LoopNext ==
  \/ StartUpdater \/ BeginCycle \/ RoundStep \/ GameStep \/ BackfillStep
  \/ SleepStep \/ BootRoundStep \/ LookupStep \/ ScanStep \/ PollRoundStep

LoopSpec == LoopInit /\ [][LoopNext]_vars

----------------------------------------------------------------------------
(* The drivers while the tournament goes from one round to the next         *)

\* the drivers that follow the rounds, and the two that do not
AdvanceDrivers == Drivers \cup {"cursor"}

AdvanceInit ==
  /\ \E d \in AdvanceDrivers :
       /\ build = BuildOf(d)
       /\ loop = [LoopIdle EXCEPT !.driver = d, !.pc = "start", !.feed = 1]
  /\ store = <<>>
  /\ prev = <<>>
  /\ now = 0
  /\ pc = "loop"
  /\ last = NoCall
  /\ lastCheck = NoCheck
  /\ repeated = FALSE
  /\ retryIn = RetryIdleIn
  /\ retryOut = RetryIdleOut
  /\ feed = FeedIdle
  /\ fetch = FetchIdle
  /\ conn = ConnIdle
  /\ live = LiveIdle
  /\ svc = ServicesIdle
  /\ probe = ProbeIdle

\* variant of NextCurrentRound that moves on as soon as the round is over
NextCurrentRoundWhenOver(currentRound, allGamesOver, roundIsLive) ==
  IF allGamesOver THEN currentRound + 1 ELSE currentRound

\* currentRound after the test at the head of the cursor driver's cycle:
\* nextRound when all games of currentRound are over and nextRound is live
NextCurrentRound(currentRound, allGamesOver, roundIsLive) ==
  IF allGamesOver /\ roundIsLive THEN currentRound + 1 ELSE currentRound

\* cursor driver: the head of the while loop, areAllGamesOver(currentRound)
\* and, when it holds, isRoundLive(currentRound + 1); then the loop over
\* GAMES_TO_MONITOR
AdvanceStep ==
  /\ pc = "loop" /\ loop.pc = "advance"
  /\ \E overIndex \in IndexResponses(loop, loop.round),
        liveIndex \in IndexResponses(loop, loop.round + 1) :
       LET allGamesOver == AreAllGamesOver(overIndex)
           roundIsLive  == allGamesOver /\ IsRoundLive(liveIndex)
       IN  loop' = StartList([loop EXCEPT
                                !.round = NextCurrentRound(@, allGamesOver, roundIsLive),
                                !.checked = [over |-> allGamesOver, live |-> roundIsLive]],
                             "cursor", GAMES_TO_MONITOR)
  /\ UNCHANGED <<build, store, prev, now, pc, last, lastCheck, repeated, retryIn, retryOut, feed, fetch, svc, probe,
                 conn, live>>

\* the last game of round 1 ends and round 2 begins
FeedTurn ==
  /\ pc = "loop" /\ loop.feed = 1
  /\ loop' = [loop EXCEPT !.feed = 2]
  /\ UNCHANGED <<build, store, prev, now, pc, last, lastCheck, repeated, retryIn, retryOut, feed, fetch, svc, probe,
                 conn, live>>

AdvanceNext == LoopNext \/ AdvanceStep \/ FeedTurn

\* every await of the driver resolves and every timer fires
AdvanceSpec == AdvanceInit /\ [][AdvanceNext]_vars /\ WF_vars(AdvanceNext)

\* the cursor driver on its own, the feed, the database and the backends
\* answering or failing freely at every request
CursorInit ==
  /\ build = BuildOf("cursor")
  /\ loop = [LoopIdle EXCEPT !.driver = "cursor", !.pc = "start"]
  /\ store = <<>>
  /\ prev = <<>>
  /\ now = 0
  /\ pc = "loop"
  /\ last = NoCall
  /\ lastCheck = NoCheck
  /\ repeated = FALSE
  /\ retryIn = RetryIdleIn
  /\ retryOut = RetryIdleOut
  /\ feed = FeedIdle
  /\ fetch = FetchIdle
  /\ conn = ConnIdle
  /\ live = LiveIdle
  /\ svc = ServicesIdle
  /\ probe = ProbeIdle

CursorNext == StartUpdater \/ AdvanceStep \/ GameStep \/ SleepStep

CursorSpec == CursorInit /\ [][CursorNext]_vars

----------------------------------------------------------------------------
(* The driver of src/unnamed/part_001:133-264: every minute updateDatabase  *)
(* asks getLatestRoundGames for the games of the latest round, updates the  *)
(* live ones, and falls back to updatePreviousRound when the list is empty. *)
(* Its updateGame requests the commentary once, without retries. loop.arg   *)
(* is the round handed to getGameState in the current list, loop.asked the  *)
(* rounds handed to it since the cycle began.                               *)

\* the value of undefined - 1
NaN == [nan |-> TRUE]

\* what the request for the game.json of one pairing returns to
\* getLatestRoundGames
ListingGames ==
  {Down, [result |-> Null, live |-> TRUE], [result |-> Str("WHITEWIN"), live |-> FALSE]}

\* getLatestRoundGames(), given what getLatestRoundNumber, the index request
\* and the game requests returned: { games: [] } from the catch and when no
\* round has games, otherwise the round number with the games whose request
\* succeeded
GetLatestRoundGames(latest, index, gamesData) ==
  IF latest = Raise THEN [games |-> <<>>]
  ELSE IF latest.round = 0 THEN [games |-> <<>>]
  ELSE IF index = IndexDown THEN [games |-> <<>>]
  ELSE LET mapped == [i \in 1..Len(index.pairings) |->
                        IF gamesData[i] = Down THEN Null
                        ELSE [gameNumber |-> i,
                              result |-> StandardizeResult("current", gamesData[i].result),
                              isLive |-> gamesData[i].live]]
       IN  [roundNumber |-> latest.round,
            games |-> SelectSeq(mapped, LAMBDA g : g # Null)]

\* what getLatestRoundGames can return to the driver
LatestGamesResponses ==
  UNION { { GetLatestRoundGames(latest, index, gamesData) :
              gamesData \in [1..(IF index = IndexDown THEN 0 ELSE Len(index.pairings))
                               -> ListingGames] } :
          latest \in LatestRoundOutcomes, index \in RoundIndexes }

\* roundNumber - 1 with the roundNumber destructured from the first answer
PreviousRoundArg(first) ==
  IF Has(first, "roundNumber") THEN [round |-> first.roundNumber - 1] ELSE NaN

\* updateGame of part_001:189-250 with the services of src/services.js: one
\* fetchCommentary call, the write only when something changed
UpdateGameDirect(coll, gs, env, t) ==
  LET existing == FindOne(coll, LookupFilter(gs))
      generate == ShouldGenerate(existing, gs)
      changed  == \/ existing = NoDoc
                  \/ ~Has(existing, "result") \/ existing.result # gs.result
                  \/ ~Has(existing, "isLive") \/ existing.isLive # gs.isLive
      c        == IF generate THEN FetchCommentary("current", gs.latestFEN, env.outs[1])
                  ELSE [kind |-> "null", requested |-> FALSE, entry |-> Null]
      media    == IF c.kind = "valid" THEN GenerateAndUploadImage("current", env.image, t)
                  ELSE Null
      set0     == IF generate THEN Merge(Stamp(t), gs) ELSE Stamp(t)
      set1     == IF changed THEN Merge(set0, [result |-> gs.result, isLive |-> gs.isLive])
                  ELSE set0
      update   == [set  |-> IF media # Null THEN Merge(set1, [imageMediaId |-> media])
                            ELSE set1,
                   push |-> c.entry]
      issue    == c.kind # "raise" /\ (generate \/ changed)
      wrote    == issue /\ env.write = "ok"
  IN  [store |-> IF wrote THEN UpdateOne(coll, [gameId |-> gs.gameId], update, TRUE)
                 ELSE coll,
       log   |-> [NoCall EXCEPT !.called = TRUE, !.gs = gs, !.existing = existing,
                                !.obtained = c.entry, !.shouldGenerate = generate,
                                !.shouldUpdate = generate \/ changed, !.update = update,
                                !.attempts = IF generate THEN 1 ELSE 0,
                                !.requests = IF c.requested THEN 1 ELSE 0,
                                !.raised = c.kind = "raise",
                                !.imageCalls = IF c.kind = "valid" THEN 1 ELSE 0,
                                !.writes = IF issue THEN 1 ELSE 0, !.wrote = wrote]]

\* a loop over the games of a list begins, round being the round handed to
\* getGameState; an empty list ends the cycle
StartListing(l, mode, games, round) ==
  IF Len(games) = 0 THEN [l EXCEPT !.pc = "update"]
  ELSE [l EXCEPT !.pc = "listing", !.mode = mode, !.games = games, !.idx = 1,
                 !.arg = round]

\* the loop over the list moves to the next game, or the cycle ends
AfterListed(l) ==
  IF l.idx >= Len(l.games) THEN [l EXCEPT !.pc = "update", !.idx = @ + 1]
  ELSE [l EXCEPT !.idx = @ + 1]

LatestInit ==
  /\ build = "current"
  /\ loop = [LoopIdle EXCEPT !.driver = "latest", !.pc = "update"]
  /\ store = <<>>
  /\ prev = <<>>
  /\ now = 0
  /\ pc = "loop"
  /\ last = NoCall
  /\ lastCheck = NoCheck
  /\ repeated = FALSE
  /\ retryIn = RetryIdleIn
  /\ retryOut = RetryIdleOut
  /\ feed = FeedIdle
  /\ fetch = FetchIdle
  /\ conn = ConnIdle
  /\ live = LiveIdle
  /\ svc = ServicesIdle
  /\ probe = ProbeIdle

\* updateDatabase up to the first game: connectToDatabase, getLatestRoundGames,
\* then updateLiveGames, or updatePreviousRound with its own call of
\* getLatestRoundGames; a failed connection goes to the catch
UpdateDatabaseStep ==
  /\ pc = "loop" /\ loop.driver = "latest" /\ loop.pc = "update"
  /\ \E connect \in {"ok", "fail"}, first \in LatestGamesResponses,
        second \in LatestGamesResponses :
       LET l == [loop EXCEPT !.asked = <<>>]
       IN  loop' =
             IF connect = "fail" THEN l
             ELSE IF Len(first.games) > 0
             THEN StartListing(l, "live", TopGames(first.games),
                               [round |-> first.roundNumber])
             ELSE StartListing(l, "previous", TopGames(second.games),
                               PreviousRoundArg(first))
  /\ UNCHANGED <<build, store, prev, now, pc, last, lastCheck, repeated, retryIn, retryOut,
                 feed, fetch, svc, probe, conn, live>>

\* one iteration of the loop of updateLiveGames or updatePreviousRound:
\* getGameState(round, game.gameNumber), then updateGame; updateLiveGames
\* passes over a game that is not live, updatePreviousRound overwrites the
\* result with the one of the list. The feed has the rounds 1..MAX_ROUNDS.
ListedGameStep ==
  /\ pc = "loop" /\ loop.driver = "latest" /\ loop.pc = "listing"
  /\ LET game  == loop.games[loop.idx]
         asked == [loop EXCEPT !.asked = Append(@, loop.arg)]
     IN  \/ /\ loop.mode = "live" /\ ~game.isLive
            /\ loop' = AfterListed(loop)
            /\ UNCHANGED <<store, last, now>>
         \/ /\ loop.mode = "previous" \/ game.isLive
            /\ loop' = AfterListed(asked)
            /\ last' = NoCall
            /\ UNCHANGED <<store, now>>
         \/ /\ loop.mode = "previous" \/ game.isLive
            /\ Has(loop.arg, "round") /\ loop.arg.round \in 1..MAX_ROUNDS
            /\ \E fetched \in LoopGameStates(loop.arg.round, game.gameNumber),
                  env \in LoopEnvs, t \in {i \in LoopInstants : i >= now} :
                 LET gs == IF loop.mode = "previous"
                           THEN [fetched EXCEPT !.result = game.result] ELSE fetched
                     r  == UpdateGameDirect(store, gs, env, t)
                 IN  /\ store' = r.store
                     /\ last' = r.log
                     /\ now' = t
                     /\ loop' = AfterListed(asked)
  /\ prev' = store
  /\ UNCHANGED <<build, pc, lastCheck, repeated, retryIn, retryOut, feed, fetch, svc, probe,
                 conn, live>>

LatestNext == UpdateDatabaseStep \/ ListedGameStep

LatestSpec == LatestInit /\ [][LatestNext]_vars

----------------------------------------------------------------------------
(* getGameState: the feed documents, the replay of the move list and the    *)
(* GameState built from them                                                *)

\* the positions of 1.h4 g5 2.hxg5 h6 3.gxh6 a6 4.h7 a5 5.hxg8=Q
PromotionLine ==
  << InitialFEN,
     "rnbqkbnr/pppppppp/8/8/7P/8/PPPPPPP1/RNBQKBNR b KQkq - 0 1",
     "rnbqkbnr/pppppp1p/8/6p1/7P/8/PPPPPPP1/RNBQKBNR w KQkq - 0 2",
     "rnbqkbnr/pppppp1p/8/6P1/8/8/PPPPPPP1/RNBQKBNR b KQkq - 0 2",
     "rnbqkbnr/pppppp2/7p/6P1/8/8/PPPPPPP1/RNBQKBNR w KQkq - 0 3",
     "rnbqkbnr/pppppp2/7P/8/8/8/PPPPPPP1/RNBQKBNR b KQkq - 0 3",
     "rnbqkbnr/1ppppp2/p6P/8/8/8/PPPPPPP1/RNBQKBNR w KQkq - 0 4",
     "rnbqkbnr/1ppppp1P/p7/8/8/8/PPPPPPP1/RNBQKBNR b KQkq - 0 4",
     "rnbqkbnr/1ppppp1P/8/p7/8/8/PPPPPPP1/RNBQKBNR w KQkq - 0 5",
     "rnbqkbQr/1ppppp2/8/p7/8/8/PPPPPPP1/RNBQKBNR b KQkq - 0 5" >>

\* the moves of that line as chess.history({ verbose: true }) reports them
PromotionMoves ==
  << [san |-> "h4",     from |-> <<"h", "2">>, to |-> <<"h", "4">>, promotion |-> <<>>],
     [san |-> "g5",     from |-> <<"g", "7">>, to |-> <<"g", "5">>, promotion |-> <<>>],
     [san |-> "hxg5",   from |-> <<"h", "4">>, to |-> <<"g", "5">>, promotion |-> <<>>],
     [san |-> "h6",     from |-> <<"h", "7">>, to |-> <<"h", "6">>, promotion |-> <<>>],
     [san |-> "gxh6",   from |-> <<"g", "5">>, to |-> <<"h", "6">>, promotion |-> <<>>],
     [san |-> "a6",     from |-> <<"a", "7">>, to |-> <<"a", "6">>, promotion |-> <<>>],
     [san |-> "h7",     from |-> <<"h", "6">>, to |-> <<"h", "7">>, promotion |-> <<>>],
     [san |-> "a5",     from |-> <<"a", "6">>, to |-> <<"a", "5">>, promotion |-> <<>>],
     [san |-> "hxg8=Q", from |-> <<"h", "7">>, to |-> <<"g", "8">>, promotion |-> <<"q">>] >>

\* the rules engine on the positions of the model: the legal moves, each with
\* the position it is played in, its SAN, its squares and the position it
\* leads to
LegalMoves ==
  { [at |-> InitialFEN, san |-> "e4", from |-> <<"e", "2">>, to |-> <<"e", "4">>,
     promotion |-> <<>>, next |-> MidFEN] }
  \cup { [at |-> PromotionLine[i], san |-> PromotionMoves[i].san,
          from |-> PromotionMoves[i].from, to |-> PromotionMoves[i].to,
          promotion |-> PromotionMoves[i].promotion, next |-> PromotionLine[i + 1]] :
         i \in 1..Len(PromotionMoves) }

MoveFor(fen, san) == {m \in LegalMoves : m.at = fen /\ m.san = san}

\* chess.loadPgn(pgn) on a new Chess(): the moves are replayed in order; at the
\* first move that is not legal it throws, the moves before it stay played
RECURSIVE Replay(_, _, _, _)
Replay(pgn, i, fen, history) ==
  IF i > Len(pgn) THEN [ok |-> TRUE, fen |-> fen, history |-> history]
  ELSE IF MoveFor(fen, pgn[i]) = {} THEN [ok |-> FALSE, fen |-> fen, history |-> history]
  ELSE LET m == CHOOSE x \in MoveFor(fen, pgn[i]) : TRUE
       IN  Replay(pgn, i + 1, m.next, Append(history, m))

LoadPgn(pgn) == Replay(pgn, 1, InitialFEN, <<>>)

\* moves.map(move => move.split(' ')[0]): a raw move is the sequence of its
\* space-separated parts, the cleaned list keeps the first part of each
CleanPGN(moves) == [i \in 1..Len(moves) |-> moves[i][1]]

\* a call that returned value v, as opposed to Raise
Returned(v) == [value |-> v]

\* variant of GetLastMoveFromPGN that absorbs the replay error and answers
\* from the moves replayed so far
GetLastMoveFromPGNBestEffort(pgn) ==
  LET h == LoadPgn(pgn).history
  IN  IF Len(h) = 0 THEN Returned(MoveInitial)
      ELSE Returned(h[Len(h)].from \o h[Len(h)].to \o h[Len(h)].promotion)

\* getLastMoveFromPGN(pgn): its own Chess instance replays the list, outside
\* any try block
GetLastMoveFromPGN(pgn) ==
  LET r == LoadPgn(pgn)
  IN  IF ~r.ok THEN Raise
      ELSE IF Len(r.history) = 0 THEN Returned(MoveInitial)
      ELSE Returned(r.history[Len(r.history)].from \o r.history[Len(r.history)].to
                      \o r.history[Len(r.history)].promotion)

\* variant of GetFenBeforeLastMove that absorbs the replay error
GetFenBeforeLastMoveBestEffort(pgn) ==
  LET h == LoadPgn(pgn).history
  IN  IF Len(h) = 0 THEN Returned(InitialFEN) ELSE Returned(h[Len(h)].at)

\* getFenBeforeLastMove(pgn): replay, undo, fen
GetFenBeforeLastMove(pgn) ==
  LET r == LoadPgn(pgn)
  IN  IF ~r.ok THEN Raise
      ELSE IF Len(r.history) = 0 THEN Returned(InitialFEN)
      ELSE Returned(r.history[Len(r.history)].at)

\* toLowerCase on the letters of the model's names
LowerCase(c) ==
  IF c = "M" THEN "m" ELSE IF c = "C" THEN "c" ELSE IF c = "H" THEN "h"
  ELSE IF c = "N" THEN "n" ELSE IF c = "U" THEN "u" ELSE c

\* `${a} ${b}`.trim(): strings are sequences of characters
JoinTrim(a, b) == IF b = <<>> THEN a ELSE a \o <<" ">> \o b

\* replace(/\s+/g, '')
StripSpaces(s) == SelectSeq(s, LAMBDA c : c # " ")

\* variant of GeneratePlayerToken that keeps the case of the letters
GeneratePlayerTokenKeepCase(whiteName, blackName) ==
  LET combined == StripSpaces(whiteName \o blackName)
  IN  SubSeq(combined, 1, IF Len(combined) < 8 THEN Len(combined) ELSE 8)

\* generatePlayerToken(whiteName, blackName)
GeneratePlayerToken(whiteName, blackName) ==
  LET combined == StripSpaces(whiteName \o blackName)
      lowered  == [i \in 1..Len(combined) |-> LowerCase(combined[i])]
  IN  SubSeq(lowered, 1, IF Len(lowered) < 8 THEN Len(lowered) ELSE 8)

\* gameId: `${tournamentId}-${round}-${game}-${playerToken}`
GameIdOf(round, game, token) == <<TOURNAMENT_ID, round, game, token>>

\* pairing.white?.fname || 'Unknown' and the like: the field of the player
\* record when both are there and the field is not empty, else the default
PlayerField(pairing, side, field, default) ==
  IF Has(pairing, side) /\ Has(pairing[side], field) /\ pairing[side][field] # <<>>
  THEN pairing[side][field] ELSE default

PlayerName(pairing, side) ==
  JoinTrim(PlayerField(pairing, side, "fname", <<"U", "n", "k", "n", "o", "w", "n">>),
           PlayerField(pairing, side, "lname", <<>>))

\* variant of PairingAt that reads the entry before the game's own
PairingAtPrevious(pairings, game) ==
  IF game - 1 >= 1 /\ game - 1 <= Len(pairings) THEN pairings[game - 1] ELSE Null

\* indexData.pairings[game - 1]: Null when the index has no such entry
PairingAt(pairings, game) ==
  IF game >= 1 /\ game <= Len(pairings) THEN pairings[game] ELSE Null

\* the object getGameState returns, with the field names of each build's
\* services
BuildGameState(b, round, game, pairing, gameData, loaded, lastMove, before) ==
  LET wName == PlayerName(pairing, "white")
      bName == PlayerName(pairing, "black")
      common ==
        [gameId |-> GameIdOf(round, game, GeneratePlayerToken(wName, bName)),
         round |-> round,
         latestFEN |-> loaded.fen,
         fenBeforeLastMove |-> before,
         lastMove |-> lastMove,
         latestPGN |-> CleanPGN(gameData.moves),
         result |-> StandardizeResult(b, gameData.result),
         isLive |-> gameData.live]
  IN  IF b = "current"
      THEN Merge(common, [wName |-> wName, bName |-> bName,
                          wTitle |-> PlayerField(pairing, "white", "title", <<>>),
                          bTitle |-> PlayerField(pairing, "black", "title", <<>>)])
      ELSE Merge(common, [whiteName |-> wName, blackName |-> bName,
                          whiteTitle |-> PlayerField(pairing, "white", "title", <<>>),
                          blackTitle |-> PlayerField(pairing, "black", "title", <<>>)])

\* getGameState(round, game) given what the two feed requests returned: the
\* GameState, or Raise
GetGameState(b, gameData, indexData, round, game) ==
  IF gameData = Down \/ indexData = Down THEN Raise
  ELSE LET pairing  == PairingAt(indexData.pairings, game)
           pgn      == CleanPGN(gameData.moves)
           lastMove == GetLastMoveFromPGN(pgn)
           before   == GetFenBeforeLastMove(pgn)
       IN  IF pairing = Null THEN Raise
           ELSE IF lastMove = Raise \/ before = Raise THEN Raise
           ELSE BuildGameState(b, round, game, pairing, gameData, LoadPgn(pgn),
                               lastMove.value, before.value)

Magnus == [fname |-> <<"M", "a", "g", "n", "u", "s">>,
           lname |-> <<"C", "a", "r", "l", "s", "e", "n">>,
           title |-> <<"G", "M">>]

Hikaru == [fname |-> <<"H", "i", "k", "a", "r", "u">>,
           lname |-> <<"N", "a", "k", "a", "m", "u", "r", "a">>,
           title |-> <<"G", "M">>]

\* pairing records of index.json
FeedPairings ==
  { [white |-> Magnus, black |-> Hikaru],
    [white |-> Hikaru, black |-> Magnus],
    [white |-> [lname |-> <<"C", "a", "r", "l", "s", "e", "n">>]] }

\* what the request for index.json can return
FeedIndexes ==
  {Down} \cup {[pairings |-> <<>>]}
  \cup {[pairings |-> <<p>>] : p \in FeedPairings}
  \cup {[pairings |-> <<p, q>>] : p \in FeedPairings, q \in FeedPairings}

\* raw move lists of game.json: moves with a clock annotation; the last list
\* holds a move that does not replay
FeedMoves ==
  { <<>>,
    << <<"e4", "5400+30">> >>,
    << <<"e4", "5400+30">>, <<"Zz9">> >>,
    << <<"Zz9", "5400+30">> >>,
    [i \in 1..Len(PromotionMoves) |-> <<PromotionMoves[i].san, "5400+30">>] }

\* what the request for game.json can return
FeedGames ==
  {Down} \cup [moves : FeedMoves, result : {Null, Str("WHITEWIN")}, live : BOOLEAN]

FetchInit ==
  /\ build \in Builds
  /\ store = <<>>
  /\ prev = <<>>
  /\ now = 0
  /\ pc = "fetch"
  /\ last = NoCall
  /\ lastCheck = NoCheck
  /\ repeated = FALSE
  /\ retryIn = RetryIdleIn
  /\ retryOut = RetryIdleOut
  /\ loop = LoopIdle
  /\ fetch = FetchIdle
  /\ conn = ConnIdle
  /\ live = LiveIdle
  /\ svc = ServicesIdle
  /\ probe = ProbeIdle
  /\ feed \in [game : FeedGames, index : FeedIndexes, round : 1..MAX_ROUNDS, number : 1..3]

\* the try body of the loops over games: getGameState, then updateGame with
\* the state it returned
FetchAndUpdate ==
  /\ pc = "fetch" /\ ~fetch.done
  /\ LET gs == GetGameState(build, feed.game, feed.index, feed.round, feed.number)
     IN  /\ fetch' = [done |-> TRUE, out |-> gs]
         /\ IF gs = Raise
            THEN store' = store /\ last' = NoCall
            ELSE \E w \in {"ok", "fail"} :
                   LET r == UpdateGame(build, store, gs,
                                       [outs |-> AllOk, image |-> "ok", write |-> w], 1)
                   IN  store' = r.store /\ last' = r.log
  /\ prev' = store
  /\ UNCHANGED <<build, now, pc, lastCheck, repeated, retryIn, retryOut, loop, feed, svc, probe,
                 conn, live>>

FetchNext == FetchAndUpdate

FetchSpec == FetchInit /\ [][FetchNext]_vars

----------------------------------------------------------------------------
(* The functions of services on their own: the round predicates,            *)
(* getLatestRoundNumber and standardizeResult, each called once on what the *)
(* feed returns                                                             *)

\* result fields of the feed: absent, or a string
RawResults ==
  {Null} \cup { Str(r) : r \in {"WHITEWIN", "whitewin", "BLACKWIN", "BlackWin", "DRAW",
                                "draw", "1-0", "0-1", "1/2-1/2", "resigned", ""} }

\* pairing entries of index.json as the round predicates read them
ProbePairings == [result : {Null, Str("WHITEWIN"), Str("resigned"), Str("")}, live : BOOLEAN]

ProbeIndexes ==
  {IndexDown} \cup {[pairings |-> <<>>]}
  \cup {[pairings |-> <<p>>] : p \in ProbePairings}
  \cup {[pairings |-> <<p, q>>] : p \in ProbePairings, q \in ProbePairings}

\* entries of rounds in tournament.json: the number of games and how many of
\* them are live
TourneyRounds == [count : {0, 3, 5}, live : {0, 2}]

\* what the request for tournament.json can return
ProbeTourneys ==
  {Down} \cup {[rounds |-> <<>>]}
  \cup {[rounds |-> <<a, b, c>>] : a \in TourneyRounds, b \in TourneyRounds, c \in TourneyRounds}

ProbeInit ==
  /\ build \in Builds
  /\ store = <<>>
  /\ prev = <<>>
  /\ now = 0
  /\ pc = "probe"
  /\ last = NoCall
  /\ lastCheck = NoCheck
  /\ repeated = FALSE
  /\ retryIn = RetryIdleIn
  /\ retryOut = RetryIdleOut
  /\ loop = LoopIdle
  /\ feed = FeedIdle
  /\ fetch = FetchIdle
  /\ conn = ConnIdle
  /\ live = LiveIdle
  /\ svc = ServicesIdle
  /\ \/ \E i \in ProbeIndexes, f \in {"isRoundLive", "areAllGamesOver"} :
          probe = [ProbeIdle EXCEPT !.fn = f, !.input = i]
     \/ \E t \in ProbeTourneys :
          probe = [ProbeIdle EXCEPT !.fn = "getLatestRoundNumber", !.input = t]
     \/ \E r \in RawResults :
          probe = [ProbeIdle EXCEPT !.fn = "standardizeResult", !.input = r]

CallIsRoundLive ==
  /\ pc = "probe" /\ probe.fn = "isRoundLive" /\ ~probe.done
  /\ probe' = [probe EXCEPT !.done = TRUE, !.out = Returned(IsRoundLive(probe.input))]
  /\ UNCHANGED <<build, store, prev, now, pc, last, lastCheck, repeated, retryIn, retryOut,
                 loop, feed, fetch, svc, conn, live>>

CallAreAllGamesOver ==
  /\ pc = "probe" /\ probe.fn = "areAllGamesOver" /\ ~probe.done
  /\ probe' = [probe EXCEPT !.done = TRUE, !.out = Returned(AreAllGamesOver(probe.input))]
  /\ UNCHANGED <<build, store, prev, now, pc, last, lastCheck, repeated, retryIn, retryOut,
                 loop, feed, fetch, svc, conn, live>>

CallGetLatestRoundNumber ==
  /\ pc = "probe" /\ probe.fn = "getLatestRoundNumber" /\ ~probe.done
  /\ probe' = [probe EXCEPT !.done = TRUE, !.out = GetLatestRoundNumber(probe.input)]
  /\ UNCHANGED <<build, store, prev, now, pc, last, lastCheck, repeated, retryIn, retryOut,
                 loop, feed, fetch, svc, conn, live>>

CallStandardizeResult ==
  /\ pc = "probe" /\ probe.fn = "standardizeResult" /\ ~probe.done
  /\ probe' = [probe EXCEPT !.done = TRUE,
                            !.out = Returned(StandardizeResult(build, probe.input))]
  /\ UNCHANGED <<build, store, prev, now, pc, last, lastCheck, repeated, retryIn, retryOut,
                 loop, feed, fetch, svc, conn, live>>

ProbeNext ==
  \/ CallIsRoundLive \/ CallAreAllGamesOver \/ CallGetLatestRoundNumber
  \/ CallStandardizeResult

ProbeSpec == ProbeInit /\ [][ProbeNext]_vars

----------------------------------------------------------------------------
(* startServices (index.js) and the updater loops it launches              *)

\* process.env.PORT as app.listen takes it: a port it binds, or one it
\* rejects with a synchronous exception
Ports == {"valid", "invalid"}

\* the monitored game in the feed as the moves arrive
Timeline ==
  << GameState("T1-1-1-magnusca", PositionOf(InitialFEN), "", "ongoing", TRUE),
     GameState("T1-1-1-magnusca", PositionOf(MidFEN), "", "ongoing", TRUE),
     GameState("T1-1-1-magnusca", PositionOf(MateFEN), "", "0-1", FALSE) >>

ServicesInit ==
  /\ build \in Builds
  /\ store = <<>>
  /\ prev = <<>>
  /\ now = 0
  /\ pc = "services"
  /\ last = NoCall
  /\ lastCheck = NoCheck
  /\ repeated = FALSE
  /\ retryIn = RetryIdleIn
  /\ retryOut = RetryIdleOut
  /\ loop = LoopIdle
  /\ feed = FeedIdle
  /\ fetch = FetchIdle
  /\ conn = ConnIdle
  /\ live = LiveIdle
  /\ \E p \in Ports : svc = [ServicesIdle EXCEPT !.phase = "connect", !.port = p, !.feed = 1]
  /\ probe = ProbeIdle

\* await connectToDatabase(): its rejection goes to the catch
ServicesConnect ==
  /\ pc = "services" /\ svc.phase = "connect"
  /\ \E connect \in {"ok", "fail"} :
       svc' = [svc EXCEPT !.phase = IF connect = "ok" THEN "launch" ELSE "timer"]
  /\ UNCHANGED <<build, store, prev, now, pc, last, lastCheck, repeated, retryIn, retryOut,
                 loop, feed, fetch, probe, conn, live>>

\* startDatabaseUpdater() is called and not awaited: a loop begins
ServicesLaunch ==
  /\ pc = "services" /\ svc.phase = "launch"
  /\ Len(svc.updaters) < MaxUpdaters
  /\ svc' = [svc EXCEPT !.phase = "listen",
                         !.updaters = Append(@, [pc |-> "fetch", held |-> Null])]
  /\ UNCHANGED <<build, store, prev, now, pc, last, lastCheck, repeated, retryIn, retryOut,
                 loop, feed, fetch, probe, conn, live>>

\* app.use and app.listen(port, ...) inside the same try: the exception of
\* an invalid port goes to the catch
ServicesListen ==
  /\ pc = "services" /\ svc.phase = "listen"
  /\ svc' = [svc EXCEPT !.phase = IF svc.port = "valid" THEN "serving" ELSE "timer"]
  /\ UNCHANGED <<build, store, prev, now, pc, last, lastCheck, repeated, retryIn, retryOut,
                 loop, feed, fetch, probe, conn, live>>

\* setTimeout(startServices, 30000) fires
ServicesRetry ==
  /\ pc = "services" /\ svc.phase = "timer"
  /\ svc' = [svc EXCEPT !.phase = "connect"]
  /\ UNCHANGED <<build, store, prev, now, pc, last, lastCheck, repeated, retryIn, retryOut,
                 loop, feed, fetch, probe, conn, live>>

\* a move arrives in the feed
FeedAdvance ==
  /\ pc = "services" /\ svc.feed < Len(Timeline)
  /\ svc' = [svc EXCEPT !.feed = @ + 1]
  /\ UNCHANGED <<build, store, prev, now, pc, last, lastCheck, repeated, retryIn, retryOut,
                 loop, feed, fetch, probe, conn, live>>

\* an updater loop: await getGameState(...) returns the current snapshot
UpdaterFetch ==
  /\ pc = "services"
  /\ \E i \in 1..Len(svc.updaters) :
       /\ svc.updaters[i].pc = "fetch"
       /\ svc' = [svc EXCEPT !.updaters[i] = [pc |-> "write", held |-> Timeline[svc.feed]]]
  /\ UNCHANGED <<build, store, prev, now, pc, last, lastCheck, repeated, retryIn, retryOut,
                 loop, feed, fetch, probe, conn, live>>

\* an updater loop: await updateGame(collection, gameState) with the state it
\* fetched
UpdaterWrite ==
  /\ pc = "services"
  /\ \E i \in 1..Len(svc.updaters), w \in {"ok", "fail"} :
       /\ svc.updaters[i].pc = "write"
       /\ LET r == UpdateGame(build, store, svc.updaters[i].held,
                              [outs |-> AllOk, image |-> "ok", write |-> w], now)
          IN  store' = r.store /\ last' = r.log
       /\ svc' = [svc EXCEPT !.updaters[i] = [pc |-> "fetch", held |-> Null]]
  /\ prev' = store
  /\ UNCHANGED <<build, now, pc, lastCheck, repeated, retryIn, retryOut, loop, feed, fetch,
                 probe, conn, live>>

ServicesNext ==
  \/ ServicesConnect \/ ServicesLaunch \/ ServicesListen \/ ServicesRetry
  \/ FeedAdvance \/ UpdaterFetch \/ UpdaterWrite

ServicesSpec == ServicesInit /\ [][ServicesNext]_vars

----------------------------------------------------------------------------
(* The database module: connectToDatabase and getDatabase called by the     *)
(* updater and by the request handlers of the API. A client is numbered by  *)
(* its creation; a handle is identified with the client it belongs to.      *)
(* Build "current" is src/database.js, build "cursor" is                    *)
(* src/unnamed/part_004. A call runs to its await in one step and resumes   *)
(* in a later one, when its connection attempt has succeeded or failed.     *)

\* number of calls of connectToDatabase/getDatabase explored
MaxCallers == 3

\* the functions the module of each build exports
DatabaseExports(b) ==
  IF b = "current" THEN {"connectToDatabase", "getDatabase"} ELSE {"connectToDatabase"}

ConnectInit ==
  /\ build \in Builds
  /\ store = <<>>
  /\ prev = <<>>
  /\ now = 0
  /\ pc = "connect"
  /\ last = NoCall
  /\ lastCheck = NoCheck
  /\ repeated = FALSE
  /\ retryIn = RetryIdleIn
  /\ retryOut = RetryIdleOut
  /\ loop = LoopIdle
  /\ feed = FeedIdle
  /\ fetch = FetchIdle
  /\ svc = ServicesIdle
  /\ probe = ProbeIdle
  /\ conn = ConnIdle
  /\ live = LiveIdle

\* a call up to its first await: if (db) return db; otherwise a new
\* MongoClient and the await of its connection. In src/database.js the new
\* client goes to the module variable, in part_004 to a local of the call.
ConnectToDatabaseCall(fn) ==
  /\ pc = "connect"
  /\ Len(conn.calls) < MaxCallers
  /\ IF conn.db # 0
     THEN conn' = [conn EXCEPT !.calls = Append(@, [fn |-> fn, pc |-> "returned",
                                                     mine |-> 0, handle |-> conn.db])]
     ELSE LET id == conn.created + 1
          IN  conn' = [conn EXCEPT
                         !.created = id,
                         !.client = IF build = "current" THEN id ELSE @,
                         !.calls = Append(@, [fn |-> fn, pc |-> "connecting",
                                              mine |-> id, handle |-> 0])]
  /\ UNCHANGED <<build, store, prev, now, pc, last, lastCheck, repeated, retryIn, retryOut,
                 loop, feed, fetch, svc, probe, live>>

\* the connection of call i is established: db = client.db(DB_NAME) with the
\* module's client (src/database.js) or the call's own (part_004); the call,
\* and getDatabase above it, return db
ConnectResolved(i) ==
  /\ pc = "connect"
  /\ i \in 1..Len(conn.calls)
  /\ conn.calls[i].pc = "connecting"
  /\ LET handle == IF build = "current" THEN conn.client ELSE conn.calls[i].mine
     IN  conn' = [conn EXCEPT !.db = handle,
                              !.connected = @ \cup {conn.calls[i].mine},
                              !.calls[i].pc = "returned",
                              !.calls[i].handle = handle]
  /\ UNCHANGED <<build, store, prev, now, pc, last, lastCheck, repeated, retryIn, retryOut,
                 loop, feed, fetch, svc, probe, live>>

\* the connection of call i fails: the catch logs and rethrows, db is not
\* assigned
ConnectRejected(i) ==
  /\ pc = "connect"
  /\ i \in 1..Len(conn.calls)
  /\ conn.calls[i].pc = "connecting"
  /\ conn' = [conn EXCEPT !.calls[i].pc = "raised"]
  /\ UNCHANGED <<build, store, prev, now, pc, last, lastCheck, repeated, retryIn, retryOut,
                 loop, feed, fetch, svc, probe, live>>

ConnectNext ==
  \/ \E fn \in DatabaseExports(build) : ConnectToDatabaseCall(fn)
  \/ \E i \in 1..MaxCallers : ConnectResolved(i)
  \/ \E i \in 1..MaxCallers : ConnectRejected(i)

ConnectSpec == ConnectInit /\ [][ConnectNext]_vars

----------------------------------------------------------------------------
(* getLiveGameUpdates(round, game, callback): the polling loop, the game    *)
(* going on in the feed meanwhile, and the function returned to the caller. *)
(* live.played and live.isLive are the feed's game (the first moves of the  *)
(* promotion line, and its live flag), live.events what the callback        *)
(* received, live.polls the number of polls made.                           *)

\* number of polls explored
MaxPolls == 4

\* number of moves the game of the feed can reach
LiveMoves == 3

\* the moves array of game.json after n moves, each with its clock
RawMoves(n) == [i \in 1..n |-> <<PromotionMoves[i].san, "5400+30">>]

\* what the two requests of a poll come to: both answered, one of them
\* failed, or an index without the pairing of the game
PollAnswers == {"ok", "down", "noPairing"}

\* cleanedPGN.split(' '): cleanPGN joins the moves with a space, and the
\* split of the empty string is the list holding the empty string
SplitPGN(pgn) == IF pgn = <<>> THEN <<"">> ELSE pgn

\* slice(start) of a list
Slice(list, start) == SubSeq(list, start + 1, Len(list))

\* the catch of the polling loop: the error event, then the wait
PollError(l) ==
  [l EXCEPT !.events = Append(@, [type |-> "error"]), !.pc = "wait"]

\* variant of PollGameUpdates that goes on polling after the gameEnd event
PollGameUpdatesNoBreak(l, answer) ==
  IF answer # "ok" THEN PollError(l)
  ELSE [l EXCEPT !.events = Append(@, [type |-> "gameEnd",
                                      latestPGN |-> CleanPGN(RawMoves(l.played))]),
                 !.pc = "wait"]

\* one iteration of while (true) in pollGameUpdates, from the requests to the
\* wait or the break
PollGameUpdates(l, answer) ==
  LET cleanedPGN == CleanPGN(RawMoves(l.played))
      split      == SplitPGN(cleanedPGN)
  IN  IF answer # "ok" THEN PollError(l)
      ELSE IF ~LoadPgn(cleanedPGN).ok \/ GetLastMoveFromPGN(cleanedPGN) = Raise
              \/ GetFenBeforeLastMove(cleanedPGN) = Raise
      THEN PollError(l)
      ELSE IF ~l.isLive
      THEN [l EXCEPT !.events = Append(@, [type |-> "gameEnd", latestPGN |-> cleanedPGN]),
                     !.pc = "stopped"]
      ELSE IF Len(split) > l.lastMoveCount
      THEN [l EXCEPT !.events = Append(@, [type |-> "newMoves", latestPGN |-> cleanedPGN,
                                          newMoves |-> Slice(split, l.lastMoveCount)]),
                     !.lastMoveCount = Len(split),
                     !.pc = "wait"]
      ELSE [l EXCEPT !.pc = "wait"]

\* getLiveGameUpdates is called while the game is at any of its stages
LiveInit ==
  /\ build = "current"
  /\ store = <<>>
  /\ prev = <<>>
  /\ now = 0
  /\ pc = "live"
  /\ last = NoCall
  /\ lastCheck = NoCheck
  /\ repeated = FALSE
  /\ retryIn = RetryIdleIn
  /\ retryOut = RetryIdleOut
  /\ loop = LoopIdle
  /\ feed = FeedIdle
  /\ fetch = FetchIdle
  /\ svc = ServicesIdle
  /\ probe = ProbeIdle
  /\ conn = ConnIdle
  /\ \E n \in 0..LiveMoves, isLive \in BOOLEAN :
       live = [LiveIdle EXCEPT !.pc = "poll", !.played = n, !.isLive = isLive]

\* a poll: the two requests and the rest of the loop body
PollStep ==
  /\ pc = "live" /\ live.pc = "poll"
  /\ live.polls < MaxPolls
  /\ \E answer \in PollAnswers :
       live' = PollGameUpdates([live EXCEPT !.polls = @ + 1, !.answer = answer], answer)
  /\ UNCHANGED <<build, store, prev, now, pc, last, lastCheck, repeated, retryIn, retryOut,
                 loop, feed, fetch, svc, probe, conn>>

\* the 5 seconds between two polls have passed
PollWait ==
  /\ pc = "live" /\ live.pc = "wait"
  /\ live' = [live EXCEPT !.pc = "poll"]
  /\ UNCHANGED <<build, store, prev, now, pc, last, lastCheck, repeated, retryIn, retryOut,
                 loop, feed, fetch, svc, probe, conn>>

\* a move is played in the game of the feed
MovePlayed ==
  /\ pc = "live" /\ live.isLive /\ live.played < LiveMoves
  /\ live' = [live EXCEPT !.played = @ + 1]
  /\ UNCHANGED <<build, store, prev, now, pc, last, lastCheck, repeated, retryIn, retryOut,
                 loop, feed, fetch, svc, probe, conn>>

\* the game of the feed ends
GameEnds ==
  /\ pc = "live" /\ live.isLive
  /\ live' = [live EXCEPT !.isLive = FALSE]
  /\ UNCHANGED <<build, store, prev, now, pc, last, lastCheck, repeated, retryIn, retryOut,
                 loop, feed, fetch, svc, probe, conn>>

\* the caller calls the function getLiveGameUpdates returned: its body is
\* empty
StopPolling ==
  /\ pc = "live" /\ ~live.stopCalled
  /\ live' = [live EXCEPT !.stopCalled = TRUE]
  /\ UNCHANGED <<build, store, prev, now, pc, last, lastCheck, repeated, retryIn, retryOut,
                 loop, feed, fetch, svc, probe, conn>>

LiveNext == PollStep \/ PollWait \/ MovePlayed \/ GameEnds \/ StopPolling

LiveSpec == LiveInit /\ [][LiveNext]_vars

----------------------------------------------------------------------------
(* Vocabulary of the properties *)

\* the fields a metadata-only update may write
MetadataKeys == {"result", "isLive", "lastUpdated", "tournamentId"}

\* the stored document of game g in a collection
DocOf(coll, g) == FindOne(coll, [gameId |-> g])

IsPrefix(s, t) == Len(s) <= Len(t) /\ SubSeq(t, 1, Len(s)) = s

\* the last call found a stored record with the fetched latestFEN
SameFEN == last.called /\ last.existing # NoDoc /\ last.existing.latestFEN = last.gs.latestFEN

SameMetadata ==
  /\ last.existing.result = last.gs.result
  /\ last.existing.isLive = last.gs.isLive

\* the store failed the write the last call issued
StoreFailed == last.writes = 1 /\ ~last.wrote

\* the reconciliation decision the last call took, read off what it planned:
\* whether it went for enrichment, whether it went for a write, what it set
Decision ==
  IF last.shouldGenerate /\ last.shouldUpdate
     /\ \A k \in DOMAIN last.gs : Has(last.update.set, k) /\ last.update.set[k] = last.gs[k]
  THEN "FullUpdate"
  ELSE IF ~last.shouldGenerate /\ last.shouldUpdate
          /\ DOMAIN last.update.set \subseteq MetadataKeys /\ last.update.push = Null
  THEN "MetadataUpdate"
  ELSE IF ~last.shouldGenerate /\ ~last.shouldUpdate
  THEN "NoChange"
  ELSE "Other"

----------------------------------------------------------------------------
(* Properties *)

\* C1: the decision of updateGame is FullUpdate exactly when no record is
\* stored or the stored latestFEN differs from the fetched one, MetadataUpdate
\* when the FEN is equal and result or isLive differs, NoChange when all three
\* are equal; a call issues at most one write.
C1_DecisionCorrect ==
  last.called =>
    /\ (Decision = "FullUpdate") <=> ~SameFEN
    /\ (SameFEN /\ ~SameMetadata) => Decision = "MetadataUpdate"
    /\ (SameFEN /\ SameMetadata) => Decision = "NoChange"
    /\ last.writes <= 1

\* C2: when latestFEN, result and isLive all equal the stored ones, the
\* iteration writes nothing (the collection, lastUpdated included, is as it
\* was) and requests neither commentary nor image.
C2_NoChangeNoWrite ==
  (SameFEN /\ SameMetadata) =>
    /\ last.writes = 0
    /\ store = prev
    /\ last.attempts = 0 /\ last.requests = 0 /\ last.imageCalls = 0

\* C3: when latestFEN is equal and result or isLive differs, the write sets only
\* result, isLive, lastUpdated and tournamentId, and every other stored field
\* keeps its value.
C3_MetadataOnlyWrite ==
  (SameFEN /\ ~SameMetadata /\ last.wrote) =>
    /\ DOMAIN last.update.set \subseteq MetadataKeys
    /\ last.update.push = Null
    /\ LET old == DocOf(prev, last.gs.gameId)
           new == DocOf(store, last.gs.gameId)
       IN  /\ DOMAIN new = DOMAIN old
           /\ \A k \in DOMAIN old \ MetadataKeys : new[k] = old[k]

\* C4: in an iteration whose fetched latestFEN equals the stored one, neither
\* updateGame nor the backfill of the same iteration requests commentary or an
\* image, whether or not result or isLive changed.
C4_NoEnrichmentSameFEN ==
  SameFEN =>
    /\ last.attempts = 0 /\ last.requests = 0 /\ last.imageCalls = 0
    /\ lastCheck.attempts = 0 /\ lastCheck.requests = 0 /\ lastCheck.imageCalls = 0

\* C4 witness: a metadata-only change of a stored game without commentary was
\* written and the backfill of that iteration has run.
C4_Witness ==
  /\ build = "current" /\ pc = "games"
  /\ SameFEN /\ ~SameMetadata /\ last.wrote
  /\ Commentaries(last.existing) = <<>>
  /\ last.gs.latestFEN = MidFEN
  /\ lastCheck.raised

C6_CommentaryAppendOnly ==
  \A g \in GameIds :
    LET old == Commentaries(DocOf(prev, g))
        new == Commentaries(DocOf(store, g))
    IN  IsPrefix(old, new) /\ Len(new) <= Len(old) + 1

\* C6 witness: an iteration of the current build, backfill included, appended
\* an entry behind an earlier, different one.
C6_Witness ==
  /\ build = "current" /\ pc = "games" /\ last.called
  /\ \E g \in GameIds :
       LET old == Commentaries(DocOf(prev, g))
           new == Commentaries(DocOf(store, g))
       IN  Len(old) >= 1 /\ Len(new) = Len(old) + 1 /\ new[Len(new)] # old[Len(old)]

NamedWinner(entry) ==
  IF entry.commentary = "The game has ended in checkmate. White wins." THEN "White"
  ELSE IF entry.commentary = "The game has ended in checkmate. Black wins." THEN "Black"
  ELSE "nobody"

\* the winner a result stands for
WinnerOf(result) ==
  IF result = "1-0" THEN "White" ELSE IF result = "0-1" THEN "Black" ELSE "nobody"

\* C11: the entry synthesized for a checkmate position names the winner the
\* fetched result stands for, with evaluation +100 for 1-0 and -100 for 0-1;
\* for every result the named winner and the sign of the evaluation agree
\* with the result.
C11_CheckmateWinnerAgrees ==
  (build = "current" /\ last.called /\ last.shouldGenerate /\ IsCheckmate(last.gs.latestFEN)) =>
    /\ last.update.push # Null
    /\ NamedWinner(last.update.push) = WinnerOf(last.gs.result)
    /\ last.gs.result = "1-0" => last.update.push.stockfishEval = 100
    /\ last.gs.result = "0-1" => last.update.push.stockfishEval = 0 - 100
    /\ last.update.push.stockfishEval > 0 <=> last.gs.result = "1-0"
    /\ last.update.push.stockfishEval < 0 <=> last.gs.result = "0-1"

\* the last call obtained a commentary entry and its image call came back empty
ImageFailedAfterCommentary ==
  last.called /\ last.shouldGenerate /\ last.obtained # Null /\ last.imageFailed

\* C12: when image generation or upload fails after a commentary entry was
\* obtained and the store accepts the write, the update still appends that entry
\* and writes the fetched fields, without imageMediaId.
C12_ImageFailureIsolated ==
  (ImageFailedAfterCommentary /\ ~StoreFailed) =>
    /\ last.wrote
    /\ last.update.push = last.obtained
    /\ ~Has(last.update.set, "imageMediaId")
    /\ LET new == DocOf(prev, last.gs.gameId)
           cur == DocOf(store, last.gs.gameId)
       IN  /\ cur # NoDoc
           /\ \A k \in DOMAIN last.gs : Has(cur, k) /\ cur[k] = last.gs[k]
           /\ Commentaries(cur) =
                Append(IF new = NoDoc THEN <<>> ELSE Commentaries(new),
                       last.obtained)

\* C12 witness: the image service failed in the current build after the
\* backend had answered, and the entry was stored.
C12_Witness ==
  /\ build = "current" /\ ImageFailedAfterCommentary
  /\ last.requests >= 1 /\ last.imageCalls = 1 /\ last.wrote
  /\ Len(Commentaries(DocOf(store, last.gs.gameId))) >= 1
  /\ ~Has(DocOf(store, last.gs.gameId), "imageMediaId")

\* C13: when the stored record of a game has a terminal result, the iteration
\* requests neither commentary nor an image for it, from updateGame or from
\* the backfill.
C13_NoEnrichmentAfterTerminal ==
  (last.called /\ last.existing # NoDoc
     /\ last.existing.result \in {"1-0", "0-1", "1/2-1/2"}) =>
    /\ last.attempts = 0 /\ last.requests = 0 /\ last.imageCalls = 0
    /\ lastCheck.attempts = 0 /\ lastCheck.requests = 0 /\ lastCheck.imageCalls = 0

ValidEntries ==
  {EntryOf(BackendResponse(p.fen)) : p \in Positions}
  \cup {CheckmateCommentary(r) : r \in Results}

ImageOf(d) == IF Has(d, "imageMediaId") THEN d.imageMediaId ELSE Null

\* C29: a step changes the imageMediaId of a stored record only when its image
\* request succeeded: an updateGame call that obtained commentary, got a media
\* id and wrote, or a backfill pass that requested an image and wrote; the new
\* value is the id generated in that step.
C29_ImageIdFrame ==
  [][ \A i \in 1..Len(store) :
        (i <= Len(store') /\ ImageOf(store'[i]) # ImageOf(store[i])) =>
          \/ /\ pc = "games"
             /\ last'.imageCalls = 1 /\ ~last'.imageFailed /\ last'.wrote
             /\ ImageOf(store'[i]) = [mediaId |-> now']
          \/ /\ pc = "backfill"
             /\ lastCheck'.imageCalls >= 1 /\ lastCheck'.writes >= 1
             /\ ImageOf(store'[i]) = [mediaId |-> now] ]_vars

\* C29 witness: an updateGame call stored new commentary for a record that
\* had an imageMediaId while its own image request failed, and the record
\* keeps the imageMediaId it had.
C29_Witness ==
  /\ pc \in {"games", "backfill"}
  /\ last.called /\ last.wrote /\ last.imageFailed
  /\ last.existing # NoDoc /\ Has(last.existing, "imageMediaId")
  /\ \E i \in 1..Len(store) :
       /\ store[i].gameId = last.gs.gameId
       /\ ImageOf(store[i]) = last.existing.imageMediaId
       /\ Len(Commentaries(store[i])) = Len(Commentaries(last.existing)) + 1

\* C35: for a game at the initial position updateGame posts no request to the
\* commentary service and appends no commentary entry.
C35_InitialPositionSilent ==
  (last.called /\ last.gs.latestFEN = InitialFEN) =>
    /\ last.requests = 0
    /\ last.update.push = Null

----------------------------------------------------------------------------
(* Properties of the drivers *)

\* C14: no failure inside a cycle (round predicate, latest-round lookup, round
\* listing, game fetch, enrichment, store) ends the polling: the driver is
\* never stopped by an error met after its loop has begun.
C14_LoopNeverStops ==
  loop.pc = "stopped" => loop.error \in {"startConnect", "startLatest"}

\* the loop over the current list of games has ended
ListOver == loop.games # <<>> /\ loop.pc # "games"

\* the last game visited is one whose getGameState failed
LastFetchFailed ==
  loop.trail # <<>> /\ loop.trail[Len(loop.trail)].outcome = "fetchFailed"

\* C15: a failure of getGameState for one game writes nothing for that game
\* and ends only that game's iteration: the games of the list are visited in
\* order, each one fetched, and each one whose fetch succeeded is reconciled,
\* whatever happened to the games before it.
C15_FetchErrorIsolated ==
  /\ Len(loop.trail) <= Len(loop.games)
  /\ \A i \in 1..Len(loop.trail) : loop.trail[i].game = loop.games[i]
  /\ loop.pc = "games" => Len(loop.trail) = loop.idx - 1
  /\ ListOver => Len(loop.trail) = Len(loop.games)
  /\ LastFetchFailed =>
       /\ store = prev
       /\ ~last.called
       /\ (ListOver \/ loop.pc = "games") =>
            DocOf(store, GameId(loop.round, loop.trail[Len(loop.trail)].game))
              = DocOf(prev, GameId(loop.round, loop.trail[Len(loop.trail)].game))

\* C15 witness: the fetch of game 1 failed, game 2 of the same list was
\* fetched, reconciled and stored, and nothing is stored for game 1.
C15_Witness ==
  /\ ListOver /\ loop.games = <<1, 2>>
  /\ loop.trail = <<[game |-> 1, outcome |-> "fetchFailed"],
                    [game |-> 2, outcome |-> "reconciled"]>>
  /\ last.called /\ last.wrote
  /\ DocOf(store, GameId(loop.round, 2)) # NoDoc
  /\ DocOf(store, GameId(loop.round, 1)) = NoDoc

PollingRound(r) == loop.pc = "games" /\ loop.round = r

\* C23: once round 1 is over and round 2 is live, the driver that follows the
\* live round comes to poll round 2.
C23_AdvancesToLiveRound ==
  (loop.driver \in {"poll", "cursor"} /\ loop.feed = 2) ~> PollingRound(2)

\* C27: every image request of updateGame carries two highlight squares, the
\* origin and the destination of the last move.
C27_TwoHighlightSquares ==
  (pc = "fetch" /\ last.called /\ last.imageCalls > 0) =>
    last.highlight = <<SubSeq(last.gs.lastMove, 1, 2), SubSeq(last.gs.lastMove, 3, 4)>>

\* the two player names of a GameState, under the field names of its build
NamesOf(gs) ==
  IF Has(gs, "wName") THEN <<gs.wName, gs.bName>> ELSE <<gs.whiteName, gs.blackName>>

\* the first 8 characters of the lower-cased concatenation of two names
\* without its whitespace
NameToken(white, black) ==
  LET joined == SelectSeq(white \o black, LAMBDA c : c # " ")
  IN  [i \in 1..(IF Len(joined) < 8 THEN Len(joined) ELSE 8) |-> LowerCase(joined[i])]

\* C30: the gameId getGameState returns is made of the tournament id, the
\* round number, the game number and the token of the two player names, and
\* of nothing else: moves, result and liveness play no part in it.
C30_GameIdDeterministic ==
  (pc = "fetch" /\ fetch.done /\ fetch.out # Raise) =>
    fetch.out.gameId
      = <<TOURNAMENT_ID, feed.round, feed.number,
          NameToken(NamesOf(fetch.out)[1], NamesOf(fetch.out)[2])>>

\* C30 witness: a game of Magnus Carlsen against Hikaru Nakamura with a result
\* and a move played was fetched; its token is "magnusca".
C30_Witness ==
  /\ pc = "fetch" /\ fetch.done /\ fetch.out # Raise
  /\ fetch.out.result = "1-0" /\ fetch.out.lastMove = MoveE2E4
  /\ fetch.out.gameId[4] = <<"m", "a", "g", "n", "u", "s", "c", "a">>

\* C34: currentRound of the cursor driver never decreases and moves by at most
\* one; it moves from r to r + 1 only at the head of a cycle in which
\* areAllGamesOver(r) and isRoundLive(r + 1) both returned true, and stays at r
\* in every other cycle.
C34_CursorAdvance ==
  [][(loop.driver = "cursor" /\ loop.pc # "start") =>
       /\ loop'.round \in {loop.round, loop.round + 1}
       /\ (loop'.round = loop.round + 1) =>
            (loop.pc = "advance" /\ loop'.checked.over /\ loop'.checked.live)
       /\ (loop.pc = "advance" /\ ~(loop'.checked.over /\ loop'.checked.live)) =>
            loop'.round = loop.round]_vars

\* C34 witness: started on round 1, the cursor driver has moved to round 2
\* after both predicates held, and is in its loop over the games.
C34_Witness ==
  /\ loop.driver = "cursor" /\ loop.pc = "games"
  /\ loop.latest = 1 /\ loop.round = 2
  /\ loop.checked.over /\ loop.checked.live

\* C36: every round number the updater hands to getGameState is an integer
\* greater than or equal to 1.
C36_RoundArgumentValid ==
  \A i \in 1..Len(loop.asked) :
    Has(loop.asked[i], "round") /\ loop.asked[i].round >= 1

----------------------------------------------------------------------------
(* Properties of the functions of services *)

\* a finished stand-alone call of function f
Probed(f) == pc = "probe" /\ probe.fn = f /\ probe.done

\* at least one pairing of the index is flagged live
SomePairingLive(index) == \E i \in 1..Len(index.pairings) : index.pairings[i].live

\* C21: isRoundLive returns true exactly when at least one pairing of the
\* round's index is flagged live.
C21_LiveIffPairingLive ==
  (Probed("isRoundLive") /\ probe.input # IndexDown)
    => (probe.out.value <=> SomePairingLive(probe.input))

\* the normalized result of a pairing; a missing result counts as ongoing
PairingOver(pairing) ==
  pairing.result # Null /\ StandardizeResult("cursor", pairing.result) # "ongoing"

\* C22: areAllGamesOver returns true exactly when every pairing of the index
\* has a normalized result other than "ongoing", and returns false when the
\* index cannot be fetched.
C22_AllOverIffNoneOngoing ==
  Probed("areAllGamesOver") =>
    probe.out = Returned(IF probe.input = IndexDown THEN FALSE
                         ELSE \A i \in 1..Len(probe.input.pairings) :
                                PairingOver(probe.input.pairings[i]))

\* C22 witness: a round of two finished games was found over.
C22_Witness ==
  /\ Probed("areAllGamesOver") /\ probe.input # IndexDown
  /\ Len(probe.input.pairings) = 2
  /\ probe.out = Returned(TRUE)

\* C24: when the index of the round cannot be fetched, isRoundLive returns
\* false.
C24_DownIsNotLive ==
  (Probed("isRoundLive") /\ probe.input = IndexDown) => probe.out = Returned(FALSE)

\* C24 witness: isRoundLive was called while the index request failed.
C24_Witness == Probed("isRoundLive") /\ probe.input = IndexDown

\* rounds with live activity, and rounds with live activity or games
LiveRounds(rounds) == {i \in 1..Len(rounds) : rounds[i].live > 0}

ActiveRounds(rounds) == {i \in 1..Len(rounds) : rounds[i].live > 0 \/ rounds[i].count > 0}

Max(S) == CHOOSE m \in S : \A n \in S : m >= n

\* the round the contract of getLatestRoundNumber names: the highest round
\* with live activity, else the highest with games, else 0
PreferredRound(rounds) ==
  IF LiveRounds(rounds) # {} THEN Max(LiveRounds(rounds))
  ELSE IF ActiveRounds(rounds) # {} THEN Max(ActiveRounds(rounds))
  ELSE 0

\* C25: getLatestRoundNumber returns the highest round with live activity when
\* there is one, else the highest round with a nonzero game count.
C25_LatestPrefersLive ==
  (Probed("getLatestRoundNumber") /\ probe.input # Down)
    => probe.out = [round |-> PreferredRound(probe.input.rounds)]

\* what the contract of standardizeResult assigns to a feed value
ContractResult(result) ==
  IF result = Null THEN "ongoing"
  ELSE IF result.str \in {"WHITEWIN", "whitewin", "1-0"} THEN "1-0"
  ELSE IF result.str \in {"BLACKWIN", "BlackWin", "0-1"} THEN "0-1"
  ELSE IF result.str \in {"DRAW", "draw", "1/2-1/2"} THEN "1/2-1/2"
  ELSE "unknown"

\* C26: standardizeResult maps every feed value into the five results: the
\* win and draw words and scores in any letter case to their score, an absent
\* value to ongoing, any other string to unknown.
C26_StandardizeTotal ==
  Probed("standardizeResult") =>
    /\ probe.out.value \in Results
    /\ probe.out.value = ContractResult(probe.input)

----------------------------------------------------------------------------
(* Properties of startServices *)

\* how far along the game the stored record of the monitored game is: 0
\* without a record, else the place of its latestFEN among the snapshots
StoredAt(coll) ==
  LET d == DocOf(coll, Timeline[1].gameId)
  IN  IF d = NoDoc THEN 0
      ELSE CHOOSE i \in 1..Len(Timeline) : Timeline[i].latestFEN = d.latestFEN

\* C20: a single updater loop runs, so at most one fetched state of a game
\* waits to be written and no write replaces the stored state of the game by
\* an older one.
C20_OneUpdaterLoop ==
  pc = "services" =>
    /\ Len(svc.updaters) <= 1
    /\ Cardinality({i \in 1..Len(svc.updaters) : svc.updaters[i].pc = "write"}) <= 1
    /\ StoredAt(store) >= StoredAt(prev)

----------------------------------------------------------------------------
(* Properties of getGameState *)

\* both feed documents arrived and the index has an entry for the game
PairingFound ==
  /\ feed.game # Down /\ feed.index # Down
  /\ feed.number <= Len(feed.index.pairings)

\* the replay of the cleaned move list of the fetched game
FeedReplay == LoadPgn(CleanPGN(feed.game.moves))

\* C16: when the cleaned move list does not replay, getGameState still returns
\* a GameState, built from the position reached before the failing move.
C16_ReplayFailureAbsorbed ==
  (fetch.done /\ PairingFound /\ ~FeedReplay.ok) =>
    /\ fetch.out # Raise
    /\ fetch.out.latestFEN = FeedReplay.fen

\* the index arrived and has no entry for the game number
NoPairing == feed.index # Down /\ feed.number > Len(feed.index.pairings)

\* C17: getGameState raises when the pairing index has no entry for the game
\* number, returns a GameState only for a game that has one, and nothing is
\* stored for a game without a pairing.
C17_NoPairingRaises ==
  fetch.done =>
    /\ NoPairing => (fetch.out = Raise /\ ~last.called /\ store = prev)
    /\ fetch.out # Raise => PairingFound

\* C17 witness: both documents arrived, the moves replay, the index has one
\* pairing and game number 2 was asked for: the call raised, nothing stored.
C17_Witness ==
  /\ fetch.done /\ NoPairing /\ feed.game # Down /\ FeedReplay.ok
  /\ Len(feed.index.pairings) = 1 /\ feed.number = 2
  /\ fetch.out = Raise /\ store = <<>>

\* the white and black names updateGame hands to fetchCommentaryWithRetry
\* and generateAndUploadImage: gameState.whiteName and gameState.blackName,
\* undefined for a GameState without these fields
RequestNames(gs) ==
  [white |-> IF Has(gs, "whiteName") THEN Returned(gs.whiteName) ELSE Null,
   black |-> IF Has(gs, "blackName") THEN Returned(gs.blackName) ELSE Null]

\* C31: every commentary request of updateGame carries the two player names
\* of the GameState that getGameState returned.
C31_RequestCarriesNames ==
  (fetch.done /\ last.called /\ last.requests >= 1) =>
    /\ RequestNames(last.gs).white = Returned(NamesOf(fetch.out)[1])
    /\ RequestNames(last.gs).black = Returned(NamesOf(fetch.out)[2])

----------------------------------------------------------------------------
(* Properties of the database module *)

\* the calls that ended with a rejected connection
RejectedCalls == {i \in 1..Len(conn.calls) : conn.calls[i].pc = "raised"}

\* the calls that returned a handle
ReturnedCalls == {i \in 1..Len(conn.calls) : conn.calls[i].pc = "returned"}

\* C33: under any interleaving of the callers, the module creates one client
\* (one more only after each failed attempt), every caller that returns gets
\* the same handle, and while every attempt made so far has failed the module
\* is uninitialized.
C33_SingleClient ==
  /\ conn.created <= 1 + Cardinality(RejectedCalls)
  /\ \A i, j \in ReturnedCalls : conn.calls[i].handle = conn.calls[j].handle
  /\ (conn.created = Cardinality(RejectedCalls)) => conn.db = 0

----------------------------------------------------------------------------
(* Properties of getLiveGameUpdates *)

\* the newMoves lists of the first n events, concatenated
RECURSIVE Delivered(_)
Delivered(n) ==
  IF n = 0 THEN <<>>
  ELSE Delivered(n - 1) \o (IF live.events[n].type = "newMoves"
                            THEN live.events[n].newMoves ELSE <<>>)

\* the positions of the newMoves events among the events
NewMovesEvents == {i \in 1..Len(live.events) : live.events[i].type = "newMoves"}

\* C37: the newMoves lists delivered so far, concatenated, are the cleaned
\* move list of the game as it was at the last newMoves event.
C37_MovesDeliveredOnce ==
  NewMovesEvents # {} =>
    LET lastEvent == CHOOSE i \in NewMovesEvents : \A j \in NewMovesEvents : j <= i
    IN  Delivered(Len(live.events)) = live.events[lastEvent].latestPGN

\* the last event the callback received
LastEvent(l) == l.events[Len(l.events)]

C39_StopStopsPolling ==
  [][live.stopCalled => (live'.polls = live.polls /\ live'.events = live.events)]_vars

----------------------------------------------------------------------------
(* Properties of fetchCommentaryWithRetry *)

\* what attempt i of the stand-alone run came to
AttemptKind(i) == FetchCommentary(build, retryIn.fen, retryIn.outs[i]).kind

\* the backend answers every request of the run with an invalid response
BackendAlwaysInvalid ==
  /\ retryIn.fen # SkipFEN(build)
  /\ \A i \in 1..Retries : retryIn.outs[i] \in {"error", "missing"}

\* C7: against a backend that always answers with an invalid response the run
\* makes exactly 3 attempts, waits 5s after the first and 10s after the second,
\* and raises to its caller.
C7_NullExhaustion ==
  (retryOut.done /\ BackendAlwaysInvalid) =>
    /\ retryOut.run.attempts = 3
    /\ retryOut.run.delays = <<5000, 10000>>
    /\ retryOut.run.raised

\* the waits a run owes: 5s x i after every attempt i that raised and was not
\* the last attempt made
RECURSIVE OwedDelays(_)
OwedDelays(i) ==
  IF i >= retryOut.run.attempts \/ i >= Retries THEN <<>>
  ELSE (IF AttemptKind(i) = "raise" THEN <<5000 * i>> ELSE <<>>) \o OwedDelays(i + 1)

\* C9: an exception of attempt 1 or 2 is not propagated and the next attempt is
\* made after the backoff wait; the run raises only when attempt 3 raised.
C9_RaiseOnlyOnLastAttempt ==
  retryOut.done =>
    /\ \A i \in 1..(Retries - 1) :
         (retryOut.run.attempts >= i /\ AttemptKind(i) = "raise") =>
           retryOut.run.attempts >= i + 1
    /\ retryOut.run.delays = OwedDelays(1)
    /\ retryOut.run.raised <=> (retryOut.run.attempts = 3 /\ AttemptKind(3) = "raise")

\* C9 witness: attempt 1 raised, attempt 2 answered after a 5s wait.
C9_Witness ==
  /\ retryOut.done /\ ~retryOut.run.raised
  /\ AttemptKind(1) = "raise" /\ AttemptKind(2) = "valid"
  /\ retryOut.run.attempts = 2 /\ retryOut.run.delays = <<5000>>
  /\ retryOut.run.commentary # Null

\* the first attempt of the stand-alone run whose response is valid, 0 when
\* there is none
FirstValid ==
  LET valid == {i \in 1..Retries : AttemptKind(i) = "valid"}
  IN  IF valid = {} THEN 0 ELSE CHOOSE i \in valid : \A j \in valid : i <= j

\* C32: whatever the backend does at each attempt, fetchCommentaryWithRetry
\* calls fetchCommentary at most 3 times, makes no call after the first valid
\* response and returns that response.
C32_StopsAtFirstValid ==
  retryOut.done =>
    /\ retryOut.run.attempts <= 3
    /\ FirstValid # 0 =>
         /\ retryOut.run.attempts = FirstValid
         /\ ~retryOut.run.raised
         /\ retryOut.run.commentary =
              FetchCommentary(build, retryIn.fen, retryIn.outs[FirstValid]).entry

\* C32 witness: a null response, then a valid one that is returned while the
\* backend would have answered a third call as well.
C32_Witness ==
  /\ retryOut.done
  /\ AttemptKind(1) = "null" /\ AttemptKind(2) = "valid" /\ AttemptKind(3) = "valid"
  /\ retryOut.run.attempts = 2
  /\ retryOut.run.commentary # Null

====
